---- MODULE Spec2Model ----
(***************************************************************************)
(* Model of the onchain agent: the agent loop of src/src/anthropic.rs      *)
(* (call_anthropic_with_personality, call_anthropic_with_tools), the tool  *)
(* dispatcher and the Ethereum wallet tools of src/src/tools.rs, and the   *)
(* read/print loop of src/src/main.rs that drives them.                    *)
(*                                                                         *)
(* Strings the code inspects (prompts, addresses, keys, amounts) are       *)
(* sequences of one-character strings, so that prefix tests, regex         *)
(* searches, hex decoding and address parsing are computed as the code     *)
(* computes them.  Strings the code only produces with format! are records *)
(* [fmt |-> <template>, ...] holding the template and its arguments.       *)
(***************************************************************************)
EXTENDS Integers, Sequences, FiniteSets, TLC

----------------------------------------------------------------------------
(* Characters and strings *)

Rep(c, n) == [i \in 1..n |-> c]

Digits == {"0", "1", "2", "3", "4", "5", "6", "7", "8", "9"}
HexDigits ==
    Digits \cup {"a", "b", "c", "d", "e", "f"} \cup {"A", "B", "C", "D", "E", "F"}

UpperLetters ==
    << "A", "B", "C", "D", "E", "F", "G", "H", "I", "J", "K", "L", "M",
       "N", "O", "P", "Q", "R", "S", "T", "U", "V", "W", "X", "Y", "Z" >>

LowerLetters ==
    << "a", "b", "c", "d", "e", "f", "g", "h", "i", "j", "k", "l", "m",
       "n", "o", "p", "q", "r", "s", "t", "u", "v", "w", "x", "y", "z" >>

\* char::to_lowercase (ASCII letters)
LowerChar(c) ==
    IF \E i \in 1..26 : UpperLetters[i] = c
    THEN LowerLetters[CHOOSE i \in 1..26 : UpperLetters[i] = c]
    ELSE c

\* str::to_lowercase
ToLowercase(s) == [i \in 1..Len(s) |-> LowerChar(s[i])]

\* str::starts_with
StartsWith(s, p) == Len(s) >= Len(p) /\ SubSeq(s, 1, Len(p)) = p

\* s[i..] begins with p
MatchAt(s, i, p) == i + Len(p) - 1 <= Len(s) /\ SubSeq(s, i, i + Len(p) - 1) = p

\* str::contains
Contains(s, p) == \E i \in 1..(Len(s) + 1) : MatchAt(s, i, p)

\* str::is_empty
IsEmpty(s) == Len(s) = 0

\* the characters str::trim removes, among those the inputs use
Whitespace == {" ", "\n", "\t"}

\* str::trim().is_empty()
TrimIsEmpty(s) == \A i \in 1..Len(s) : s[i] \in Whitespace

\* the last index j >= i - 1 such that s[i..j] lies within set (a greedy run)
RunEnd(s, i, set) ==
    CHOOSE j \in (i - 1)..Len(s) :
        /\ \A k \in i..j : s[k] \in set
        /\ (j = Len(s) \/ s[j + 1] \notin set)

----------------------------------------------------------------------------
(* Conversions of the ethers, hex and core libraries, as tools.rs uses them *)

AddrHexLen == 40
KeyHexLen == 64

HexPrefix == << "0", "x" >>

\* Address::from_str (tools.rs:197, 270, 276): an optional "0x", then exactly
\* 40 hex digits of either case; the value is the 20 bytes, kept here as
\* their lowercase hex digits
AddressFromStr(s) ==
    LET body == IF StartsWith(s, HexPrefix) THEN SubSeq(s, 3, Len(s)) ELSE s
    IN  IF Len(body) = AddrHexLen /\ \A i \in 1..Len(body) : body[i] \in HexDigits
        THEN [ok |-> TRUE, addr |-> ToLowercase(body)]
        ELSE [ok |-> FALSE, addr |-> << >>]

\* format!("{:?}", address): "0x" and the 40 lowercase hex digits
FormatAddress(a) == HexPrefix \o a

\* hex::decode (tools.rs:303): an even number of hex digits of either case, no prefix
HexDecode(s) ==
    IF Len(s) % 2 = 0 /\ \A i \in 1..Len(s) : s[i] \in HexDigits
    THEN [ok |-> TRUE, bytes |-> ToLowercase(s)]
    ELSE [ok |-> FALSE, bytes |-> << >>]

\* hex::encode (tools.rs:173): lowercase hex digits
HexEncode(bytes) == bytes

HexVal(c) ==
    CASE c = "0" -> 0 [] c = "1" -> 1 [] c = "2" -> 2 [] c = "3" -> 3
      [] c = "4" -> 4 [] c = "5" -> 5 [] c = "6" -> 6 [] c = "7" -> 7
      [] c = "8" -> 8 [] c = "9" -> 9 [] c = "a" -> 10 [] c = "b" -> 11
      [] c = "c" -> 12 [] c = "d" -> 13 [] c = "e" -> 14 [] c = "f" -> 15

\* the order of the secp256k1 group, as 64 hex digits
CurveOrder ==
    Rep("f", 31) \o << "e" >>
      \o << "b", "a", "a", "e", "d", "c", "e", "6" >>
      \o << "a", "f", "4", "8", "a", "0", "3", "b" >>
      \o << "b", "f", "d", "2", "5", "e", "8", "c" >>
      \o << "d", "0", "3", "6", "4", "1", "4", "1" >>

\* big-endian comparison of two byte strings of the same length
HexLess(a, b) ==
    \E i \in 1..Len(a) :
        /\ HexVal(a[i]) < HexVal(b[i])
        /\ \A k \in 1..(i - 1) : a[k] = b[k]

\* LocalWallet::from_bytes (tools.rs:176, 315): 32 bytes that are a nonzero
\* scalar below the group order
WalletFromBytesOk(bytes) ==
    /\ Len(bytes) = KeyHexLen
    /\ bytes # Rep("0", KeyHexLen)
    /\ HexLess(bytes, CurveOrder)

\* wallet.address() (tools.rs:182): the address of the key.  The real map is
\* keccak256 of the public key; here a fixed digit substitution of the last
\* 20 bytes of the key stands for it (a function of the key alone).
AddressDigit(c) ==
    CASE c = "1" -> "a" [] c = "2" -> "b" [] c = "3" -> "c" [] OTHER -> c

WalletAddress(bytes) == [i \in 1..AddrHexLen |-> AddressDigit(bytes[i + (KeyHexLen - AddrHexLen)])]

\* str::parse::<f64> (tools.rs:283): [sign] (inf | infinity | nan | digits
\* with at most one point and at least one digit, then an optional exponent)
ParseF64Ok(s) ==
    LET b == IF Len(s) >= 1 /\ s[1] \in {"+", "-"} THEN 2 ELSE 1
        body == SubSeq(s, b, Len(s))
        n == Len(body)
        i1 == RunEnd(body, 1, Digits)
        hasPoint == i1 < n /\ body[i1 + 1] = "."
        i2 == IF hasPoint THEN RunEnd(body, i1 + 2, Digits) ELSE i1
        nDigits == IF hasPoint THEN i2 - 1 ELSE i1
        hasExp == i2 < n /\ body[i2 + 1] \in {"e", "E"}
        e1 == IF i2 + 2 <= n /\ body[i2 + 2] \in {"+", "-"} THEN i2 + 3 ELSE i2 + 2
        e2 == RunEnd(body, e1, Digits)
    IN  \/ ToLowercase(body) \in { << "i", "n", "f" >>, << "n", "a", "n" >>,
                                   << "i", "n", "f", "i", "n", "i", "t", "y" >> }
        \/ /\ nDigits >= 1
           /\ \/ i2 = n
              \/ hasExp /\ e2 >= e1 /\ e2 = n

----------------------------------------------------------------------------
(* JSON argument bags, content blocks, messages and formatted results *)

ArgKeys ==
    {"city", "timezone", "operation", "address", "from_address", "to_address",
     "amount", "private_key", "raw_command"}

\* a JSON value under a key: absent, a string, or a value of another type
Absent == [t |-> "absent", s |-> << >>]
JStr(s) == [t |-> "str", s |-> s]
JOther == [t |-> "other", s |-> << >>]

\* serde_json::Value::Null, and any bag without the keys the tools read
NoArgs == [k \in ArgKeys |-> Absent]

\* args.get(key).and_then(|v| v.as_str()) (tools.rs:56-57 and alike)
GetStr(args, key) ==
    IF args[key].t = "str"
    THEN [some |-> TRUE, s |-> args[key].s]
    ELSE [some |-> FALSE, s |-> << >>]

\* Option::unwrap_or
UnwrapOr(opt, default) == IF opt.some THEN opt.s ELSE default

None == [some |-> FALSE, s |-> << >>]
Some(s) == [some |-> TRUE, s |-> s]

\* the output of a format! call: the template, its string arguments and its
\* numeric arguments, in the order of the template
Fmt(template, strs, nums) == [fmt |-> template, a |-> strs, n |-> nums]
NoResult == Fmt("", << >>, << >>)

\* ContentBlock (anthropic.rs:44-60)
TextBlock(text) ==
    [type |-> "text", text |-> text, id |-> "", name |-> "", input |-> NoArgs,
     content |-> NoResult]
ToolUseBlock(id, name, input) ==
    [type |-> "tool_use", text |-> << >>, id |-> id, name |-> name, input |-> input,
     content |-> NoResult]
ToolResultBlock(id, content) ==
    [type |-> "tool_result", text |-> << >>, id |-> id, name |-> "", input |-> NoArgs,
     content |-> content]

\* Message (anthropic.rs:25-35); tool_calls, tool_call_id and name are always None
Message(role, content) == [role |-> role, content |-> content]

----------------------------------------------------------------------------
(* The command parser's three regexes and the key regex (tools.rs:233-255) *)

W_ETH == << "E", "T", "H" >>
W_from == << "f", "r", "o", "m", " " >>
W_to == << "t", "o", " " >>
W_private_key == << "p", "r", "i", "v", "a", "t", "e", " ", "k", "e", "y", " " >>

\* (\d+\.?\d*) ?ETH anchored at i: the end of capture group 1, or 0
AmountMatchEnd(s, i) ==
    IF i > Len(s) \/ s[i] \notin Digits THEN 0
    ELSE LET i1 == RunEnd(s, i, Digits)
             p == IF i1 < Len(s) /\ s[i1 + 1] = "." THEN RunEnd(s, i1 + 2, Digits) ELSE i1
             q == IF p < Len(s) /\ s[p + 1] = " " THEN p + 2 ELSE p + 1
         IN  IF MatchAt(s, q, W_ETH) THEN p ELSE 0

\* amount_pattern.captures(command): group 1 of the leftmost match
CaptureAmount(s) ==
    LET starts == {i \in 1..Len(s) : AmountMatchEnd(s, i) > 0}
    IN  IF starts = {} THEN None
        ELSE LET i == CHOOSE x \in starts : \A y \in starts : x <= y
             IN  Some(SubSeq(s, i, AmountMatchEnd(s, i)))

\* <word>(<prefix>[a-fA-F0-9]{n}) anchored at i
HexTokenAt(s, i, word, prefix, n) ==
    /\ MatchAt(s, i, word \o prefix)
    /\ i + Len(word) + Len(prefix) + n - 1 <= Len(s)
    /\ \A k \in 0..(n - 1) : s[i + Len(word) + Len(prefix) + k] \in HexDigits

\* group 1 of the leftmost match of <word>(<prefix>[a-fA-F0-9]{n})
CaptureHexToken(s, word, prefix, n) ==
    LET starts == {i \in 1..Len(s) : HexTokenAt(s, i, word, prefix, n)}
    IN  IF starts = {} THEN None
        ELSE LET i == CHOOSE x \in starts : \A y \in starts : x <= y
             IN  Some(SubSeq(s, i + Len(word), i + Len(word) + Len(prefix) + n - 1))

CaptureFrom(s) == CaptureHexToken(s, W_from, HexPrefix, AddrHexLen)
CaptureTo(s) == CaptureHexToken(s, W_to, HexPrefix, AddrHexLen)
CapturePrivateKey(s) == CaptureHexToken(s, W_private_key, << >>, KeyHexLen)

----------------------------------------------------------------------------
(* The tools of tools.rs, up to their first network call *)

\* an environment variable: unset, or set to a URL that parses or does not
Unset == [set |-> FALSE, valid |-> FALSE]

\* a U256 the RPC node returns: its words above and below 2^128
U256(hi, lo) == [hi |-> hi, lo |-> lo]

\* U256::as_u128: panics when the number does not fit in 128 bits
AsU128Panics(v) == v.hi # 0

\* the Ethereum operation in progress: what eth_check_balance and
\* eth_send_eth hold in locals across their awaits
NoCall ==
    [op |-> "none", from |-> << >>, to |-> << >>, amount |-> << >>, key |-> << >>,
     gasPrice |-> U256(0, 0), gasEstimate |-> 0, txHash |-> 0]

\* a tool's progress: returned a string, panicked, or waits for an RPC reply
Returned(result) == [next |-> "return", result |-> result, call |-> NoCall]
Panicked == [next |-> "panic", result |-> NoResult, call |-> NoCall]
AwaitRpc(call) == [next |-> "rpc", result |-> NoResult, call |-> call]

\* get_sepolia_rpc_url (tools.rs:152-155): env::var(..).expect(..)
SepoliaUrlPanics(e) == ~e.SEPOLIA_RPC_URL.set

SepoliaUrlText == << "$SEPOLIA_RPC_URL" >>

\* get_provider (tools.rs:158-165)
GetProvider(e) ==
    IF e.ETH_RPC_URL.set
    THEN IF e.ETH_RPC_URL.valid THEN "ok" ELSE "err"
    ELSE IF SepoliaUrlPanics(e) THEN "panic"
    ELSE IF e.SEPOLIA_RPC_URL.valid THEN "ok" ELSE "err"

W_unknown == << "u", "n", "k", "n", "o", "w", "n" >>

\* get_weather (tools.rs:113-128)
get_weather(city) ==
    LET c == ToLowercase(city)
    IN  IF c = << "c", "a", "i", "r", "o" >> THEN Fmt("30C, sunny", << >>, << >>)
        ELSE IF c = << "l", "o", "n", "d", "o", "n" >> THEN Fmt("15C, cloudy with occasional rain", << >>, << >>)
        ELSE Fmt("Weather data for {} is not available. This is a mock implementation.",
                 << city >>, << >>)

\* get_time (tools.rs:130-144)
get_time(timezone, now) ==
    IF timezone.some
    THEN Fmt("Current time (local, timezone {} not implemented): {}", << timezone.s >>, << now >>)
    ELSE Fmt("Current local time: {}", << >>, << now >>)

\* an insert that leaves the new entry alone in the map
MapInsertAlone(wallets, k, v) == [a \in {k} |-> v]

\* wallets.insert (tools.rs:186): HashMap::insert replaces an entry of the same key
MapInsert(wallets, k, v) ==
    [a \in (DOMAIN wallets) \cup {k} |-> IF a = k THEN v ELSE wallets[a]]

\* a wallet generation that files the key under the address as Display
\* prints it, abbreviated, instead of as Debug prints it
eth_generate_wallet_DisplayAddress(bytes, wallets) ==
    IF ~WalletFromBytesOk(bytes)
    THEN [result |-> Fmt("Failed to generate wallet", << >>, << >>), wallets |-> wallets]
    ELSE LET address == WalletAddress(bytes)
             private_key == HexEncode(bytes)
             shown == HexPrefix \o SubSeq(address, 1, 4) \o << "." >>
                        \o SubSeq(address, AddrHexLen - 3, AddrHexLen)
         IN  [result |-> Fmt("Generated new Ethereum wallet:\nAddress: {:?}\nPrivate Key: {}",
                             << FormatAddress(address), private_key >>, << >>),
              wallets |-> MapInsert(wallets, shown, private_key)]

\* eth_generate_wallet (tools.rs:168-189) on the 32 random bytes drawn:
\* the result and the registry after it
eth_generate_wallet(bytes, wallets) ==
    IF ~WalletFromBytesOk(bytes)
    THEN [result |-> Fmt("Failed to generate wallet", << >>, << >>), wallets |-> wallets]
    ELSE LET address == WalletAddress(bytes)
             private_key == HexEncode(bytes)
         IN  [result |-> Fmt("Generated new Ethereum wallet:\nAddress: {:?}\nPrivate Key: {}",
                             << FormatAddress(address), private_key >>, << >>),
              wallets |-> MapInsert(wallets, FormatAddress(address), private_key)]

\* a balance query that connects to the node before it looks at the address
eth_check_balance_ProviderFirst(address, e) ==
    IF IsEmpty(address)
    THEN Returned(Fmt("Error: Address is required", << >>, << >>))
    ELSE IF GetProvider(e) = "panic" THEN Panicked
    ELSE IF GetProvider(e) = "err"
    THEN Returned(Fmt("Error connecting to Ethereum node: {}", << << "url parse error" >> >>, << >>))
    ELSE IF ~AddressFromStr(address).ok
    THEN Returned(Fmt("Error: Invalid Ethereum address format: {}", << address >>, << >>))
    ELSE AwaitRpc([NoCall EXCEPT !.op = "balance", !.from = AddressFromStr(address).addr])

\* eth_check_balance (tools.rs:191-210), up to the get_balance call
eth_check_balance(address, e) ==
    IF IsEmpty(address)
    THEN Returned(Fmt("Error: Address is required", << >>, << >>))
    ELSE IF ~AddressFromStr(address).ok
    THEN Returned(Fmt("Error: Invalid Ethereum address format: {}", << address >>, << >>))
    ELSE IF GetProvider(e) = "panic" THEN Panicked
    ELSE IF GetProvider(e) = "err"
    THEN Returned(Fmt("Error connecting to Ethereum node: {}", << << "url parse error" >> >>, << >>))
    ELSE AwaitRpc([NoCall EXCEPT !.op = "balance", !.from = AddressFromStr(address).addr])

\* a key resolution that falls back to whatever entry the registry holds
ResolveKeyAnyEntry(from_addr, provided_private_key, wallets) ==
    IF provided_private_key.some THEN Some(provided_private_key.s)
    ELSE IF FormatAddress(from_addr) \in DOMAIN wallets
    THEN Some(wallets[FormatAddress(from_addr)])
    ELSE IF DOMAIN wallets # {}
    THEN Some(wallets[CHOOSE a \in DOMAIN wallets : TRUE])
    ELSE None

\* the key eth_send_eth takes (tools.rs:288-301): the override, else the
\* registry's entry under the formatted source address
ResolveKey(from_addr, provided_private_key, wallets) ==
    IF provided_private_key.some THEN Some(provided_private_key.s)
    ELSE IF FormatAddress(from_addr) \in DOMAIN wallets
    THEN Some(wallets[FormatAddress(from_addr)])
    ELSE None

\* the checks without that of the destination address
ValidateSendNoToCheck(from_address, to_address, amount) ==
    IF IsEmpty(from_address) \/ IsEmpty(to_address) \/ IsEmpty(amount)
    THEN Fmt("Error: From address, to address, and amount are required", << >>, << >>)
    ELSE IF ~AddressFromStr(from_address).ok
    THEN Fmt("Error: Invalid from address format: {}", << from_address >>, << >>)
    ELSE IF ~ParseF64Ok(amount)
    THEN Fmt("Error: Invalid amount: {}", << amount >>, << >>)
    ELSE NoResult

\* the checks eth_send_eth starts with (tools.rs:265-286): the error string
\* of the first that fails, or NoResult
ValidateSend(from_address, to_address, amount) ==
    IF IsEmpty(from_address) \/ IsEmpty(to_address) \/ IsEmpty(amount)
    THEN Fmt("Error: From address, to address, and amount are required", << >>, << >>)
    ELSE IF ~AddressFromStr(from_address).ok
    THEN Fmt("Error: Invalid from address format: {}", << from_address >>, << >>)
    ELSE IF ~AddressFromStr(to_address).ok
    THEN Fmt("Error: Invalid to address format: {}", << to_address >>, << >>)
    ELSE IF ~ParseF64Ok(amount)
    THEN Fmt("Error: Invalid amount: {}", << amount >>, << >>)
    ELSE NoResult

\* eth_send_eth (tools.rs:264-329), up to the get_gas_price call
eth_send_eth(from_address, to_address, amount, provided_private_key, wallets, e) ==
    IF ValidateSend(from_address, to_address, amount) # NoResult
    THEN Returned(ValidateSend(from_address, to_address, amount))
    ELSE LET from == AddressFromStr(from_address).addr
             to == AddressFromStr(to_address).addr
             private_key == ResolveKey(from, provided_private_key, wallets)
         IN  IF ~private_key.some
             THEN Returned(Fmt("Error: No private key found for address {:?}. Please provide a private key.",
                               << FormatAddress(from) >>, << >>))
             ELSE IF ~HexDecode(private_key.s).ok
             THEN Returned(Fmt("Error: Invalid private key format", << >>, << >>))
             ELSE IF GetProvider(e) = "panic" THEN Panicked
             ELSE IF GetProvider(e) = "err"
             THEN Returned(Fmt("Error connecting to Ethereum node: {}",
                               << << "url parse error" >> >>, << >>))
             ELSE IF ~WalletFromBytesOk(HexDecode(private_key.s).bytes)
             THEN Returned(Fmt("Error: Failed to create wallet from private key", << >>, << >>))
             ELSE AwaitRpc([NoCall EXCEPT !.op = "send", !.from = from, !.to = to,
                                          !.amount = amount,
                                          !.key = HexDecode(private_key.s).bytes])

\* a command parser that looks for the addresses before the amount
parse_and_execute_eth_send_command_AddressesFirst(command, wallets, e) ==
    IF ~CaptureFrom(command).some
    THEN Returned(Fmt("Error: Could not parse from address from command", << >>, << >>))
    ELSE IF ~CaptureTo(command).some
    THEN Returned(Fmt("Error: Could not parse to address from command", << >>, << >>))
    ELSE IF ~CaptureAmount(command).some
    THEN Returned(Fmt("Error: Could not parse ETH amount from command", << >>, << >>))
    ELSE eth_send_eth(CaptureFrom(command).s, CaptureTo(command).s, CaptureAmount(command).s,
                      CapturePrivateKey(command), wallets, e)

\* parse_and_execute_eth_send_command (tools.rs:229-262)
parse_and_execute_eth_send_command(command, wallets, e) ==
    IF ~CaptureAmount(command).some
    THEN Returned(Fmt("Error: Could not parse ETH amount from command", << >>, << >>))
    ELSE IF ~CaptureFrom(command).some
    THEN Returned(Fmt("Error: Could not parse from address from command", << >>, << >>))
    ELSE IF ~CaptureTo(command).some
    THEN Returned(Fmt("Error: Could not parse to address from command", << >>, << >>))
    ELSE eth_send_eth(CaptureFrom(command).s, CaptureTo(command).s, CaptureAmount(command).s,
                      CapturePrivateKey(command), wallets, e)

W_generate == << "g", "e", "n", "e", "r", "a", "t", "e" >>
W_balance == << "b", "a", "l", "a", "n", "c", "e" >>
W_send == << "s", "e", "n", "d" >>

\* the "send" arm of execute_tool (tools.rs:84-105)
ExecuteSend(args, wallets, e) ==
    IF GetStr(args, "raw_command").some
    THEN parse_and_execute_eth_send_command(GetStr(args, "raw_command").s, wallets, e)
    ELSE eth_send_eth(UnwrapOr(GetStr(args, "from_address"), << >>),
                      UnwrapOr(GetStr(args, "to_address"), << >>),
                      UnwrapOr(GetStr(args, "amount"), << "0" >>),
                      GetStr(args, "private_key"), wallets, e)

----------------------------------------------------------------------------
(* Inputs: the strings, keys, prompts and replies the model explores *)

ADDR_A == HexPrefix \o Rep("a", AddrHexLen)
ADDR_B == HexPrefix \o Rep("b", AddrHexLen)
\* ADDR_A in upper-case hex digits and without its prefix: the same address
ADDR_A_UPPER == Rep("A", AddrHexLen)
ADDR_BAD == << "0", "x", "Z", "Z", "Z" >>

\* ADDR_A is the address of KEY_1, ADDR_B that of KEY_2; KEY_0 is no scalar
KEY_1 == Rep("1", KeyHexLen)
KEY_2 == Rep("2", KeyHexLen)
KEY_0 == Rep("0", KeyHexLen)
KEY_NOT_HEX == << "z", "z" >>

\* the 32 bytes rng.fill can draw (tools.rs:170-172)
RandomKeys == {KEY_0, KEY_1, KEY_2}

SP == << " " >>
W_please == << "p", "l", "e", "a", "s", "e" >>
W_hi == << "h", "i" >>
AMT_01 == << "0", ".", "1" >>
AMT_1 == << "1" >>
AMT_BAD == << "a", "b", "c" >>

\* "send 0.1 ETH from <A> to <B>"
P_SEND == W_send \o SP \o AMT_01 \o SP \o W_ETH \o SP \o W_from \o ADDR_A \o SP \o W_to \o ADDR_B
\* "SEND 1ETH from <B> to <A> private key <KEY_1>"
P_SEND_KEY ==
    << "S", "E", "N", "D" >> \o SP \o AMT_1 \o W_ETH \o SP \o W_from \o ADDR_B \o SP
      \o W_to \o ADDR_A \o SP \o W_private_key \o KEY_1
\* "send ETH from <A> to <B>"
P_NO_AMOUNT == W_send \o SP \o W_ETH \o SP \o W_from \o ADDR_A \o SP \o W_to \o ADDR_B
\* "send 1 ETH to <B>"
P_NO_FROM == W_send \o SP \o AMT_1 \o SP \o W_ETH \o SP \o W_to \o ADDR_B
\* "send 1 ETH from <A>"
P_NO_TO == W_send \o SP \o AMT_1 \o SP \o W_ETH \o SP \o W_from \o ADDR_A
\* "please send 0.1 ETH from <A> to <B>"
P_PLEASE == W_please \o SP \o P_SEND
\* "send 1 ETH from <B> to <A>"
P_SEND_BACK == W_send \o SP \o AMT_1 \o SP \o W_ETH \o SP \o W_from \o ADDR_B \o SP \o W_to \o ADDR_A
\* "Send 1 ETH from <A> to <B> private key <KEY_0>"
P_SEND_ZERO_KEY ==
    << "S", "e", "n", "d" >> \o SP \o AMT_1 \o SP \o W_ETH \o SP \o W_from \o ADDR_A \o SP
      \o W_to \o ADDR_B \o SP \o W_private_key \o KEY_0

\* "send ETH"
P_ONLY_UNIT == W_send \o SP \o W_ETH
\* "send 1 ETH"
P_ONLY_AMOUNT == W_send \o SP \o AMT_1 \o SP \o W_ETH

\* the lines main reads (main.rs:50-63): trimmed, not empty, not "exit"
Prompts ==
    {P_SEND, P_SEND_KEY, P_SEND_BACK, P_SEND_ZERO_KEY, P_NO_AMOUNT, P_NO_FROM, P_NO_TO,
     P_ONLY_UNIT, P_ONLY_AMOUNT, P_PLEASE}

ARGS_WEATHER == [NoArgs EXCEPT !["city"] = JStr(<< "C", "a", "i", "r", "o" >>)]
ARGS_GENERATE == [NoArgs EXCEPT !["operation"] = JStr(W_generate)]
ARGS_BALANCE == [NoArgs EXCEPT !["operation"] = JStr(W_balance), !["address"] = JStr(ADDR_A)]
ARGS_BALANCE_BAD == [NoArgs EXCEPT !["operation"] = JStr(W_balance), !["address"] = JStr(ADDR_BAD)]
ARGS_SEND ==
    [NoArgs EXCEPT !["operation"] = JStr(W_send), !["from_address"] = JStr(ADDR_A_UPPER),
                   !["to_address"] = JStr(ADDR_B), !["amount"] = JStr(AMT_01)]
ARGS_SEND_BAD_KEY == [ARGS_SEND EXCEPT !["private_key"] = JStr(KEY_NOT_HEX)]
ARGS_SEND_NO_AMOUNT == [ARGS_SEND EXCEPT !["amount"] = Absent]
ARGS_SEND_BAD_AMOUNT == [ARGS_SEND EXCEPT !["amount"] = JStr(AMT_BAD)]
ARGS_SEND_BAD_FROM == [ARGS_SEND EXCEPT !["from_address"] = JStr(ADDR_BAD)]
ARGS_SEND_BAD_TO == [ARGS_SEND EXCEPT !["to_address"] = JStr(ADDR_BAD)]
ARGS_SEND_NO_TO == [ARGS_SEND EXCEPT !["to_address"] = Absent]
ARGS_UNKNOWN_OP == [NoArgs EXCEPT !["operation"] = JOther]

\* AnthropicToolCallResponse (anthropic.rs:71-76)
ToolCall(id, name, parameters) == [id |-> id, name |-> name, parameters |-> parameters]

\* what one model request can come back with: the transport's outcome, whether
\* the body parses as AnthropicErrorResponse (with its type and message),
\* whether it parses as AnthropicResponse, and then its content and tool_calls
Reply(transport, isError, parses, content, tool_calls) ==
    [transport |-> transport, isError |-> isError, errType |-> "overloaded_error",
     errMessage |-> "Overloaded", parses |-> parses, content |-> content,
     tool_calls |-> tool_calls]

OkReply(content, tool_calls) == Reply("ok", FALSE, TRUE, content, tool_calls)

\* replies that ask for one tool, by a tool_use block
ToolReplies ==
    { OkReply(<< ToolUseBlock("toolu_1", "eth_wallet", a) >>, << >>) :
        a \in {ARGS_GENERATE, ARGS_BALANCE, ARGS_BALANCE_BAD, ARGS_SEND,
               ARGS_SEND_BAD_KEY, ARGS_SEND_NO_AMOUNT,
               ARGS_SEND_BAD_AMOUNT, ARGS_SEND_BAD_FROM, ARGS_SEND_BAD_TO,
               ARGS_SEND_NO_TO, ARGS_UNKNOWN_OP} }
    \cup
    { \* text before the tool_use block, and a second tool_use block after it
      OkReply(<< TextBlock(W_hi), ToolUseBlock("toolu_2", "get_weather", ARGS_WEATHER),
                 ToolUseBlock("toolu_3", "get_time", NoArgs) >>, << >>),
      \* the legacy list alone
      OkReply(<< TextBlock(W_hi) >>, << ToolCall("call_1", "get_time", NoArgs),
                                        ToolCall("call_2", "get_weather", NoArgs) >>),
      \* a tool_use block and the legacy list
      OkReply(<< ToolUseBlock("toolu_4", "no_such_tool", NoArgs) >>,
              << ToolCall("call_1", "get_time", NoArgs) >>) }

\* replies without a tool invocation
TextReplies ==
    { OkReply(<< TextBlock(W_hi), TextBlock(SP), TextBlock(W_please) >>, << >>),
      OkReply(<< TextBlock(SP), TextBlock(<< "\n" >>) >>, << >>),
      OkReply(<< >>, << >>) }

\* failed requests: the transport fails sending or reading the body, the body
\* is an error envelope (one that would also parse as a reply, and one that
\* would not), or the body parses as neither
FailedReplies ==
    { Reply("send_failed", FALSE, FALSE, << >>, << >>),
      Reply("body_failed", FALSE, FALSE, << >>, << >>),
      Reply("ok", TRUE, TRUE, << ToolUseBlock("toolu_1", "eth_wallet", ARGS_GENERATE) >>, << >>),
      Reply("ok", TRUE, FALSE, << >>, << >>),
      Reply("ok", FALSE, FALSE, << >>, << >>) }

Replies == ToolReplies \cup TextReplies \cup FailedReplies

\* what the RPC node can answer
BalanceReplies == {U256(0, 5), U256(1, 0)}
GasPriceReplies == {U256(0, 2000000000), U256(1, 0)}
GasEstimates == {21000}
TxHashes == {77}
\* a receipt's gas_used and block_number, 0 where the node left them out
Receipts == {[gas_used |-> 21000, block_number |-> 9]}
\* gen_range(0..10) and gen_range(100000..999999) (tools.rs:221-222)
MockWhole == {9}
MockFraction == {100000}
\* Local::now() (tools.rs:131)
Times == {1}

\* how many tool round-trips of one turn the model follows
MaxRounds == 2

----------------------------------------------------------------------------
(* State *)

VARIABLES
    env,        \* the environment variables, fixed when the process starts
    WALLETS,    \* the wallet registry (tools.rs:147-149): formatted address -> key hex
    pc,         \* where the process is: "idle" (main waits for a line), "personality",
                \* "enter", "await" (a model request is out), "tool", "rpc" (an RPC
                \* call is out), "tool_done", or ended: "exited", "failed", "aborted"
    prompt,     \* the prompt argument of the current call
    messages,   \* the messages vector of the current call_anthropic_with_tools
    tool,       \* tool_name, tool_id, tool_parameters of the tool being executed
    caller,     \* who awaits execute_tool: "direct" (the fast path) or "loop"
    call,       \* the Ethereum operation in progress, and the RPC step it waits for
    step,       \* the RPC call that is out: "get_balance", "get_gas_price",
                \* "estimate_gas", "send_transaction", "confirmations", or "none"
    tool_result, \* what execute_tool returned
    result,     \* what call_anthropic_with_personality returned to main
    sent,       \* history: the messages of the last model request
    reply,      \* history: what the last model request came back with
    rpcLog,     \* history: the RPC calls of the current tool execution, each with
                \* how it ended ("pending" while it is out)
    walletsBefore, \* history: the registry when the current tool execution began
    requests,   \* history: model requests issued in this turn
    toolRuns,   \* history: execute_tool calls in this turn
    rounds,     \* history: tool round-trips completed in this turn
    lock,       \* the task that holds the mutex of WALLETS, 0 when it is free
    task,       \* concurrent callers of eth_generate_wallet and eth_send_eth:
                \* each one's position, key bytes, address and looked-up key
    sentTools   \* history: the tool declarations of the last model request

vars ==
    << env, WALLETS, pc, prompt, messages, tool, caller, call, step, tool_result,
       result, sent, reply, rpcLog, walletsBefore, requests, toolRuns, rounds,
       lock, task, sentTools >>

NoTool == [name |-> "", id |-> "", parameters |-> NoArgs]
NoTurnResult == [kind |-> "none", value |-> NoResult]
NoReply == Reply("none", FALSE, FALSE, << >>, << >>)
Ok(value) == [kind |-> "ok", value |-> value]
Err(value) == [kind |-> "err", value |-> value]

EmptyRegistry == [a \in {} |-> << >>]

\* how many callers use the registry at once
NumTasks == 2
Tasks == 1..NumTasks
IdleTask == [pc |-> "idle", bytes |-> << >>, address |-> << >>, seen |-> None]

Environments ==
    [ANTHROPIC_API_KEY : BOOLEAN,
     ETH_RPC_URL : {Unset, [set |-> TRUE, valid |-> TRUE], [set |-> TRUE, valid |-> FALSE]},
     SEPOLIA_RPC_URL : {Unset, [set |-> TRUE, valid |-> TRUE]}]

Init ==
    /\ env \in Environments
    /\ WALLETS = EmptyRegistry
    /\ pc = "idle"
    /\ prompt = << >>
    /\ messages = << >>
    /\ tool = NoTool
    /\ caller = "none"
    /\ call = NoCall
    /\ step = "none"
    /\ tool_result = NoResult
    /\ result = NoTurnResult
    /\ sent = << >>
    /\ reply = NoReply
    /\ rpcLog = << >>
    /\ walletsBefore = EmptyRegistry
    /\ requests = 0
    /\ toolRuns = 0
    /\ rounds = 0
    /\ lock = 0
    /\ task = [t \in Tasks |-> IdleTask]
    /\ sentTools = << >>

----------------------------------------------------------------------------
(* main.rs: the read/print loop *)

\* main reads a line and calls call_anthropic_with_personality (main.rs:44-75)
ReadInput(line) ==
    /\ pc = "idle"
    /\ pc' = "personality"
    /\ prompt' = line
    /\ messages' = << >>
    /\ result' = NoTurnResult
    /\ sent' = << >>
    /\ reply' = NoReply
    /\ rpcLog' = << >>
    /\ walletsBefore' = WALLETS
    /\ requests' = 0
    /\ toolRuns' = 0
    /\ rounds' = 0
    /\ tool' = NoTool
    /\ caller' = "none"
    /\ tool_result' = NoResult
    /\ call' = NoCall
    /\ UNCHANGED << env, WALLETS, step >>
    /\ sentTools' = << >>
    /\ UNCHANGED << lock, task >>

\* the user types "exit" (main.rs:55-58)
Quit ==
    /\ pc = "idle"
    /\ pc' = "exited"
    /\ UNCHANGED << env, WALLETS, prompt, messages, tool, caller, call, step, tool_result,
                    result, sent, reply, rpcLog, walletsBefore, requests, toolRuns, rounds >>
    /\ UNCHANGED << lock, task, sentTools >>

\* call_anthropic_with_personality returns r to main (main.rs:75): `?` ends
\* the process on Err, otherwise the reply is printed and main loops; the
\* call's message vectors are dropped
ReturnToMain(r) ==
    /\ result' = r
    /\ pc' = IF r.kind = "err" THEN "failed" ELSE "idle"
    /\ messages' = << >>
    /\ sent' = << >>

----------------------------------------------------------------------------
(* tools.rs: execute_tool *)

\* execute_tool is entered with the given name and arguments
StartTool(name, id, parameters, from) ==
    /\ pc' = "tool"
    /\ tool' = [name |-> name, id |-> id, parameters |-> parameters]
    /\ caller' = from
    /\ call' = NoCall
    /\ step' = "none"
    /\ tool_result' = NoResult
    /\ rpcLog' = << >>
    /\ walletsBefore' = WALLETS

\* a tool's progress applied to the state: its string is returned to
\* execute_tool's caller, the process panics, or an RPC call goes out
\* (ended: how the RPC call that was out ended; rpc: the next one, if any)
Progress(outcome, ended, rpc) ==
    /\ pc' = CASE outcome.next = "return" -> "tool_done"
               [] outcome.next = "panic" -> "aborted"
               [] outcome.next = "rpc" -> "rpc"
    /\ tool_result' = outcome.result
    /\ call' = outcome.call
    /\ step' = IF outcome.next = "rpc" THEN rpc ELSE "none"
    /\ rpcLog' =
         LET log == IF rpcLog = << >> THEN rpcLog
                    ELSE [rpcLog EXCEPT ![Len(rpcLog)].reply = ended]
         IN  IF outcome.next = "rpc"
             THEN Append(log, [call |-> rpc, reply |-> "pending"])
             ELSE log

Operation == UnwrapOr(GetStr(tool.parameters, "operation"), W_unknown)

ToolFrame ==
    << env, prompt, messages, tool, caller, result, sent, reply, walletsBefore, requests, rounds >>

\* tools.rs:55-61
ExecWeather ==
    /\ pc = "tool" /\ tool.name = "get_weather"
    /\ Progress(Returned(get_weather(UnwrapOr(GetStr(tool.parameters, "city"), W_unknown))), "", "none")
    /\ toolRuns' = toolRuns + 1
    /\ UNCHANGED << WALLETS, ToolFrame >>
    /\ UNCHANGED << lock, task, sentTools >>

\* tools.rs:62-67
ExecTime ==
    /\ pc = "tool" /\ tool.name = "get_time"
    /\ \E now \in Times :
         Progress(Returned(get_time(GetStr(tool.parameters, "timezone"), now)), "", "none")
    /\ toolRuns' = toolRuns + 1
    /\ UNCHANGED << WALLETS, ToolFrame >>
    /\ UNCHANGED << lock, task, sentTools >>

\* tools.rs:74-76
ExecGenerate ==
    /\ pc = "tool" /\ tool.name = "eth_wallet" /\ Operation = W_generate
    /\ \E bytes \in RandomKeys :
         /\ Progress(Returned(eth_generate_wallet(bytes, WALLETS).result), "", "none")
         /\ WALLETS' = eth_generate_wallet(bytes, WALLETS).wallets
    /\ toolRuns' = toolRuns + 1
    /\ UNCHANGED ToolFrame
    /\ UNCHANGED << lock, task, sentTools >>

\* tools.rs:77-83
ExecBalance ==
    /\ pc = "tool" /\ tool.name = "eth_wallet" /\ Operation = W_balance
    /\ Progress(eth_check_balance(UnwrapOr(GetStr(tool.parameters, "address"), << >>), env),
                "", "get_balance")
    /\ toolRuns' = toolRuns + 1
    /\ UNCHANGED << WALLETS, ToolFrame >>
    /\ UNCHANGED << lock, task, sentTools >>

\* tools.rs:84-105
ExecSend ==
    /\ pc = "tool" /\ tool.name = "eth_wallet" /\ Operation = W_send
    /\ Progress(ExecuteSend(tool.parameters, WALLETS, env), "", "get_gas_price")
    /\ toolRuns' = toolRuns + 1
    /\ UNCHANGED << WALLETS, ToolFrame >>
    /\ UNCHANGED << lock, task, sentTools >>

\* tools.rs:106
ExecUnknownOperation ==
    /\ pc = "tool" /\ tool.name = "eth_wallet"
    /\ Operation \notin {W_generate, W_balance, W_send}
    /\ Progress(Returned(Fmt("Unknown Ethereum wallet operation: {}", << Operation >>, << >>)),
                "", "none")
    /\ toolRuns' = toolRuns + 1
    /\ UNCHANGED << WALLETS, ToolFrame >>
    /\ UNCHANGED << lock, task, sentTools >>

\* an execute_tool that answers an unknown name with Err, which the loop's
\* `?` hands to main
ExecUnknownToolErr ==
    /\ pc = "tool" /\ tool.name \notin {"get_weather", "get_time", "eth_wallet"}
    /\ ReturnToMain(Err(Fmt("Unknown tool: {}", << << tool.name >> >>, << >>)))
    /\ toolRuns' = toolRuns + 1
    /\ UNCHANGED << env, WALLETS, prompt, tool, caller, call, step, tool_result, reply,
                    rpcLog, walletsBefore, requests, rounds >>
    /\ UNCHANGED << lock, task, sentTools >>

\* tools.rs:109
ExecUnknownTool ==
    /\ pc = "tool" /\ tool.name \notin {"get_weather", "get_time", "eth_wallet"}
    /\ Progress(Returned(Fmt("Unknown tool: {}", << << tool.name >> >>, << >>)), "", "none")
    /\ toolRuns' = toolRuns + 1
    /\ UNCHANGED << WALLETS, ToolFrame >>
    /\ UNCHANGED << lock, task, sentTools >>

----------------------------------------------------------------------------
(* tools.rs: the RPC steps of eth_check_balance and eth_send_eth *)

RpcError == << "rpc error" >>

\* an RPC call's Result: Ok(value) or Err
RpcOk(v) == [ok |-> TRUE, value |-> v]
RpcErr == [ok |-> FALSE, value |-> U256(0, 0)]

\* eth_check_balance after provider.get_balance (tools.rs:210-225)
AfterGetBalance(c, rep, e, whole, fraction) ==
    IF rep.ok
    THEN IF AsU128Panics(rep.value) \/ SepoliaUrlPanics(e) THEN Panicked
         ELSE Returned(Fmt("Balance for address {:?}: {:.6} ETH (via {})",
                           << FormatAddress(c.from), SepoliaUrlText >>, << rep.value.lo >>))
    ELSE Returned(Fmt("Balance for address {:?}: {}.{} ETH (mock)",
                      << FormatAddress(c.from) >>, << whole, fraction >>))

\* eth_send_eth after client.get_gas_price (tools.rs:329-344)
AfterGasPrice(c, rep) ==
    IF rep.ok THEN AwaitRpc([c EXCEPT !.gasPrice = rep.value])
    ELSE Returned(Fmt("Error getting gas price: {}", << RpcError >>, << >>))

\* an estimate step that goes on to submit with the plain-transfer gas limit
\* when the estimate failed
AfterEstimateGasDefault(c, rep) ==
    IF rep.ok THEN AwaitRpc([c EXCEPT !.gasEstimate = rep.value.lo])
    ELSE AwaitRpc([c EXCEPT !.gasEstimate = 21000])

\* eth_send_eth after client.estimate_gas (tools.rs:344-350)
AfterEstimateGas(c, rep) ==
    IF rep.ok THEN AwaitRpc([c EXCEPT !.gasEstimate = rep.value.lo])
    ELSE Returned(Fmt("Error estimating gas: {}", << RpcError >>, << >>))

\* the templates of the four results after a submitted transaction
\* (tools.rs:364, 378, 389, 397)
ConfirmedTemplate ==
    "Transaction successfully sent {} ETH from {:?} to {:?} Gas Price: {} gwei Gas Used: {} Block Number: {} Network: Sepolia (via {}) Transaction Hash: {:?}"
NoReceiptTemplate ==
    "Transaction submitted but no receipt was found. {} ETH from {:?} to {:?} Network: Sepolia (via {}) Transaction Hash: {:?}"
SubmittedFailedTemplate == "Transaction submitted but failed: {} Transaction Hash: {:?}"
TimeoutTemplate ==
    "Transaction submitted but confirmation timed out after 60 seconds. {} ETH from {:?} to {:?} Gas Price: {} gwei Gas Estimate: {} Network: Sepolia (via {}) Transaction Hash: {:?}"

\* a submit step that answers a failed submission with a made-up confirmation
AfterSendTransactionMock(c, rep) ==
    IF rep.ok THEN AwaitRpc([c EXCEPT !.txHash = rep.value.lo])
    ELSE Returned(Fmt(ConfirmedTemplate,
                      << c.amount, FormatAddress(c.from), FormatAddress(c.to), SepoliaUrlText >>,
                      << c.gasPrice.lo \div 1000000000, c.gasEstimate, 0, 0 >>))

\* eth_send_eth after client.send_transaction (tools.rs:350-357, 411-414)
AfterSendTransaction(c, rep) ==
    IF rep.ok THEN AwaitRpc([c EXCEPT !.txHash = rep.value.lo])
    ELSE Returned(Fmt("Error sending transaction: {}", << RpcError >>, << >>))

\* what the poll for one confirmation ends with, within the timeout or by it
ConfirmationOutcomes ==
    [kind : {"receipt"}, receipt : Receipts]
      \cup [kind : {"no_receipt", "error", "timeout"}, receipt : {[gas_used |-> 0, block_number |-> 0]}]

\* eth_send_eth after timeout(60 s, pending_tx.confirmations(1)) (tools.rs:357-409)
AfterConfirmations(c, outcome, e) ==
    CASE outcome.kind = "receipt" ->
           IF AsU128Panics(c.gasPrice) \/ SepoliaUrlPanics(e) THEN Panicked
           ELSE Returned(Fmt(ConfirmedTemplate,
                             << c.amount, FormatAddress(c.from), FormatAddress(c.to), SepoliaUrlText >>,
                             << c.gasPrice.lo \div 1000000000, outcome.receipt.gas_used,
                                outcome.receipt.block_number, c.txHash >>))
      [] outcome.kind = "no_receipt" ->
           IF SepoliaUrlPanics(e) THEN Panicked
           ELSE Returned(Fmt(NoReceiptTemplate,
                             << c.amount, FormatAddress(c.from), FormatAddress(c.to), SepoliaUrlText >>,
                             << c.txHash >>))
      [] outcome.kind = "error" ->
           Returned(Fmt(SubmittedFailedTemplate,
                        << RpcError >>, << c.txHash >>))
      [] outcome.kind = "timeout" ->
           IF AsU128Panics(c.gasPrice) \/ SepoliaUrlPanics(e) THEN Panicked
           ELSE Returned(Fmt(TimeoutTemplate,
                             << c.amount, FormatAddress(c.from), FormatAddress(c.to), SepoliaUrlText >>,
                             << c.gasPrice.lo \div 1000000000, c.gasEstimate, c.txHash >>))

RpcFrame ==
    << env, WALLETS, prompt, messages, tool, caller, result, sent, reply, walletsBefore,
       requests, toolRuns, rounds >>

Ended(rep) == IF rep.ok THEN "ok" ELSE "err"

GetBalanceReply ==
    /\ pc = "rpc" /\ step = "get_balance"
    /\ \E rep \in {RpcOk(v) : v \in BalanceReplies} \cup {RpcErr} :
       \E whole \in MockWhole, fraction \in MockFraction :
         Progress(AfterGetBalance(call, rep, env, whole, fraction), Ended(rep), "none")
    /\ UNCHANGED RpcFrame
    /\ UNCHANGED << lock, task, sentTools >>

GasPriceReply ==
    /\ pc = "rpc" /\ step = "get_gas_price"
    /\ \E rep \in {RpcOk(v) : v \in GasPriceReplies} \cup {RpcErr} :
         Progress(AfterGasPrice(call, rep), Ended(rep), "estimate_gas")
    /\ UNCHANGED RpcFrame
    /\ UNCHANGED << lock, task, sentTools >>

EstimateGasReply ==
    /\ pc = "rpc" /\ step = "estimate_gas"
    /\ \E rep \in {RpcOk(U256(0, g)) : g \in GasEstimates} \cup {RpcErr} :
         Progress(AfterEstimateGas(call, rep), Ended(rep), "send_transaction")
    /\ UNCHANGED RpcFrame
    /\ UNCHANGED << lock, task, sentTools >>

SendTransactionReply ==
    /\ pc = "rpc" /\ step = "send_transaction"
    /\ \E rep \in {RpcOk(U256(0, h)) : h \in TxHashes} \cup {RpcErr} :
         Progress(AfterSendTransaction(call, rep), Ended(rep), "confirmations")
    /\ UNCHANGED RpcFrame
    /\ UNCHANGED << lock, task, sentTools >>

ConfirmationsEnd ==
    /\ pc = "rpc" /\ step = "confirmations"
    /\ \E outcome \in ConfirmationOutcomes :
         Progress(AfterConfirmations(call, outcome, env), outcome.kind, "none")
    /\ UNCHANGED RpcFrame
    /\ UNCHANGED << lock, task, sentTools >>

----------------------------------------------------------------------------
(* anthropic.rs: the agent loop *)

\* the fast-path test (anthropic.rs:99)
IsDirectSend(p) == StartsWith(ToLowercase(p), W_send) /\ Contains(p, W_ETH)

\* the arguments of the fast path's execute_tool call (anthropic.rs:101-104)
DirectSendArgs(p) == [NoArgs EXCEPT !["operation"] = JStr(W_send), !["raw_command"] = JStr(p)]

\* call_anthropic_with_personality (anthropic.rs:97-114), to its first await
CallWithPersonality ==
    /\ pc = "personality"
    /\ IF IsDirectSend(prompt)
       THEN /\ StartTool("eth_wallet", "", DirectSendArgs(prompt), "direct")
            /\ UNCHANGED messages
       ELSE /\ pc' = "enter"
            /\ messages' = << >>
            /\ UNCHANGED << tool, caller, call, step, tool_result, rpcLog, walletsBefore >>
    /\ UNCHANGED << env, WALLETS, prompt, result, sent, reply, requests, toolRuns, rounds >>
    /\ UNCHANGED << lock, task, sentTools >>

\* the fast path's execute_tool returned (anthropic.rs:106-109)
DirectSendReturns ==
    /\ pc = "tool_done" /\ caller = "direct"
    /\ ReturnToMain(Ok(tool_result))
    /\ UNCHANGED << env, WALLETS, prompt, tool, caller, call, step, tool_result,
                    reply, rpcLog, walletsBefore, requests, toolRuns, rounds >>
    /\ UNCHANGED << lock, task, sentTools >>

\* struct Tool (tools.rs:12-16)
Tool(name, description) == [name |-> name, description |-> description]

\* tools.rs:31-46
get_available_tools ==
    << Tool("get_weather", "Get the current weather for a given city"),
       Tool("get_time", "Get the current time in a specific timezone or local time"),
       Tool("eth_wallet",
            "Ethereum wallet operations: generate new wallet, check balance, or send ETH") >>

\* a JSON schema of type object: the names of its properties and the names
\* it requires, none when it has no "required" list
Schema(properties, required) == [properties |-> properties, required |-> required]

\* the schema of a tool name without an arm of its own (anthropic.rs:232)
DefaultSchema == Schema({}, {})

\* a request builder without an arm for eth_wallet
InputSchemaNoWallet(name) ==
    CASE name = "get_weather" -> Schema({"city"}, {"city"})
      [] name = "get_time" -> Schema({"timezone"}, {})
      [] OTHER -> DefaultSchema

\* let input_schema = match tool.name.as_str() (anthropic.rs:188-233)
InputSchema(name) ==
    CASE name = "get_weather" -> Schema({"city"}, {"city"})
      [] name = "get_time" -> Schema({"timezone"}, {})
      [] name = "eth_wallet" ->
           Schema({"operation", "address", "from_address", "to_address", "amount",
                   "private_key"},
                  {"operation"})
      [] OTHER -> DefaultSchema

\* anthropic_tools (anthropic.rs:183-245): one declaration for each tool, in
\* the order of the list
AnthropicTools(tools) ==
    [i \in 1..Len(tools) |->
        [name |-> tools[i].name, description |-> tools[i].description,
         input_schema |-> InputSchema(tools[i].name)]]

\* a request builder that pushes the prompt as a user message on every entry
WithUserMessageAlways(msgs, p) ==
    Append(msgs, Message("user", << TextBlock(p) >>))

\* the user message is pushed when there is no history or the prompt is not
\* empty (anthropic.rs:171-181)
WithUserMessage(msgs, p) ==
    IF msgs = << >> \/ ~IsEmpty(p)
    THEN Append(msgs, Message("user", << TextBlock(p) >>))
    ELSE msgs

\* call_anthropic_with_tools from its entry to the request's send().await
\* (anthropic.rs:121-268)
SendRequest ==
    /\ pc = "enter"
    /\ IF ~env.ANTHROPIC_API_KEY
       THEN /\ ReturnToMain(Err(Fmt("environment variable not found", << >>, << >>)))
            /\ UNCHANGED << requests, sentTools >>
       ELSE /\ pc' = "await"
            /\ messages' = WithUserMessage(messages, prompt)
            /\ sent' = WithUserMessage(messages, prompt)
            /\ requests' = requests + 1
            /\ sentTools' = AnthropicTools(get_available_tools)
            /\ UNCHANGED result
    /\ UNCHANGED << env, WALLETS, prompt, tool, caller, call, step, tool_result, reply,
                    rpcLog, walletsBefore, toolRuns, rounds >>
    /\ UNCHANGED << lock, task >>

\* the tool invocation a parsed reply holds (anthropic.rs:290-314): the first
\* tool_use block of the content, else the first element of tool_calls
ToolUseIndexes(r) == {i \in 1..Len(r.content) : r.content[i].type = "tool_use"}

FirstToolUse(r) ==
    r.content[CHOOSE i \in ToolUseIndexes(r) : \A j \in ToolUseIndexes(r) : i <= j]

HasToolCall(r) == ToolUseIndexes(r) # {} \/ r.tool_calls # << >>

\* a choice of invocation that prefers the legacy list to the content blocks
RequestedToolLegacyFirst(r) ==
    IF r.tool_calls # << >>
    THEN [name |-> r.tool_calls[1].name, id |-> r.tool_calls[1].id,
          parameters |-> r.tool_calls[1].parameters]
    ELSE [name |-> FirstToolUse(r).name, id |-> FirstToolUse(r).id,
          parameters |-> FirstToolUse(r).input]

RequestedTool(r) ==
    IF ToolUseIndexes(r) # {}
    THEN [name |-> FirstToolUse(r).name, id |-> FirstToolUse(r).id,
          parameters |-> FirstToolUse(r).input]
    ELSE [name |-> r.tool_calls[1].name, id |-> r.tool_calls[1].id,
          parameters |-> r.tool_calls[1].parameters]

RECURSIVE JoinText(_)
\* the text blocks' texts, joined in order (anthropic.rs:354-362)
JoinText(content) ==
    IF content = << >> THEN << >>
    ELSE (IF Head(content).type = "text" THEN Head(content).text ELSE << >>)
           \o JoinText(Tail(content))

\* a final answer that replaces only the empty concatenation, not a blank one
FinalAnswerEmptyOnly(r) ==
    IF IsEmpty(JoinText(r.content))
    THEN Fmt("I'm processing your request...", << >>, << >>)
    ELSE Fmt("{}", << JoinText(r.content) >>, << >>)

\* the final answer of a reply without tool calls (anthropic.rs:353-371)
FinalAnswer(r) ==
    IF TrimIsEmpty(JoinText(r.content))
    THEN Fmt("I'm processing your request...", << >>, << >>)
    ELSE Fmt("{}", << JoinText(r.content) >>, << >>)

\* a classification that tries the success envelope before the error envelope
ClassifyParseFirst(r) ==
    IF r.transport = "send_failed"
    THEN [kind |-> "err", value |-> Fmt("reqwest: error sending request", << >>, << >>)]
    ELSE IF r.transport = "body_failed"
    THEN [kind |-> "err", value |-> Fmt("reqwest: error decoding response body", << >>, << >>)]
    ELSE IF r.parses
    THEN IF HasToolCall(r) THEN [kind |-> "tool", value |-> NoResult]
         ELSE [kind |-> "final", value |-> FinalAnswer(r)]
    ELSE IF r.isError
    THEN [kind |-> "err",
          value |-> Fmt("Anthropic API error: {}: {}", << << r.errType >>, << r.errMessage >> >>, << >>)]
    ELSE [kind |-> "err", value |-> Fmt("Failed to parse Anthropic response: {}", << >>, << >>)]

\* what call_anthropic_with_tools makes of the response (anthropic.rs:261-316):
\* an error, a tool to execute, or the final answer
Classify(r) ==
    IF r.transport = "send_failed"
    THEN [kind |-> "err", value |-> Fmt("reqwest: error sending request", << >>, << >>)]
    ELSE IF r.transport = "body_failed"
    THEN [kind |-> "err", value |-> Fmt("reqwest: error decoding response body", << >>, << >>)]
    ELSE IF r.isError
    THEN [kind |-> "err",
          value |-> Fmt("Anthropic API error: {}: {}", << << r.errType >>, << r.errMessage >> >>, << >>)]
    ELSE IF ~r.parses
    THEN [kind |-> "err", value |-> Fmt("Failed to parse Anthropic response: {}", << >>, << >>)]
    ELSE IF HasToolCall(r)
    THEN [kind |-> "tool", value |-> NoResult]
    ELSE [kind |-> "final", value |-> FinalAnswer(r)]

LoopFrame == << env, WALLETS, prompt, requests, toolRuns, rounds >>

\* the request fails, or the body is an error envelope or unparsable
\* (anthropic.rs:268-288)
ModelFails ==
    /\ pc = "await"
    /\ \E r \in Replies :
         /\ Classify(r).kind = "err"
         /\ reply' = r
         /\ ReturnToMain(Err(Classify(r).value))
    /\ UNCHANGED << LoopFrame, tool, caller, call, step, tool_result, rpcLog, walletsBefore >>
    /\ UNCHANGED << lock, task, sentTools >>

\* the reply holds a tool invocation: execute_tool is called (anthropic.rs:290-318)
ModelRequestsTool ==
    /\ pc = "await"
    /\ rounds < MaxRounds
    /\ \E r \in Replies :
         /\ Classify(r).kind = "tool"
         /\ reply' = r
         /\ StartTool(RequestedTool(r).name, RequestedTool(r).id, RequestedTool(r).parameters,
                      "loop")
    /\ UNCHANGED << LoopFrame, messages, sent, result >>
    /\ UNCHANGED << lock, task, sentTools >>

\* the reply holds no tool invocation: its text is the answer (anthropic.rs:353-371)
ModelAnswers ==
    /\ pc = "await"
    /\ \E r \in Replies :
         /\ Classify(r).kind = "final"
         /\ reply' = r
         /\ ReturnToMain(Ok(Classify(r).value))
    /\ UNCHANGED << LoopFrame, tool, caller, call, step, tool_result, rpcLog, walletsBefore >>
    /\ UNCHANGED << lock, task, sentTools >>

\* new_messages without the assistant message that holds the invocation
NewMessagesResultOnly(msgs, t, tool_res) ==
    msgs \o << Message("user", << ToolResultBlock(t.id, tool_res) >>) >>

\* new_messages with the result message pushed before the invocation message
NewMessagesResultFirst(msgs, t, tool_res) ==
    msgs \o << Message("user", << ToolResultBlock(t.id, tool_res) >>),
               Message("assistant", << ToolUseBlock(t.id, t.name, t.parameters) >>) >>

\* new_messages (anthropic.rs:320-347): the history and two more messages
NewMessages(msgs, t, tool_res) ==
    msgs \o << Message("assistant", << ToolUseBlock(t.id, t.name, t.parameters) >>),
               Message("user", << ToolResultBlock(t.id, tool_res) >>) >>

\* execute_tool returned to the loop, which calls itself with an empty
\* prompt and new_messages (anthropic.rs:318-350)
ToolRoundTrip ==
    /\ pc = "tool_done" /\ caller = "loop"
    /\ pc' = "enter"
    /\ prompt' = << >>
    /\ messages' = NewMessages(messages, tool, tool_result)
    /\ rounds' = rounds + 1
    /\ UNCHANGED << env, WALLETS, tool, caller, call, step, tool_result, result, sent,
                    reply, rpcLog, walletsBefore, requests, toolRuns >>
    /\ UNCHANGED << lock, task, sentTools >>

----------------------------------------------------------------------------

Next ==
    \/ \E line \in Prompts : ReadInput(line)
    \/ Quit
    \/ CallWithPersonality
    \/ DirectSendReturns
    \/ SendRequest
    \/ ModelFails
    \/ ModelRequestsTool
    \/ ModelAnswers
    \/ ToolRoundTrip
    \/ ExecWeather
    \/ ExecTime
    \/ ExecGenerate
    \/ ExecBalance
    \/ ExecSend
    \/ ExecUnknownOperation
    \/ ExecUnknownTool
    \/ GetBalanceReply
    \/ GasPriceReply
    \/ EstimateGasReply
    \/ SendTransactionReply
    \/ ConfirmationsEnd

Spec == Init /\ [][Next]_vars

----------------------------------------------------------------------------
(* tools.rs: the registry's mutex under concurrent callers.  Tasks call    *)
(* eth_generate_wallet and eth_send_eth at once; HashMap::insert is not    *)
(* one step for another thread, so an insert writes its entry in two: the  *)
(* first half of the key, then the whole key.                              *)

LockFrame ==
    << env, pc, prompt, messages, tool, caller, call, step, tool_result, result, sent,
       reply, rpcLog, walletsBefore, requests, toolRuns, rounds, sentTools >>

\* eth_generate_wallet up to WALLETS.lock() (tools.rs:168-184); it returns
\* at once when the bytes make no wallet
GenStart(t, bytes) ==
    /\ task[t].pc = "idle"
    /\ task' = [task EXCEPT ![t] =
                  IF WalletFromBytesOk(bytes)
                  THEN [pc |-> "gen_lock", bytes |-> bytes,
                        address |-> FormatAddress(WalletAddress(bytes)), seen |-> None]
                  ELSE IdleTask]
    /\ UNCHANGED << WALLETS, lock, LockFrame >>

\* let mut wallets = WALLETS.lock().unwrap() (tools.rs:185)
GenLock(t) ==
    /\ task[t].pc = "gen_lock"
    /\ lock = 0
    /\ lock' = t
    /\ task' = [task EXCEPT ![t].pc = "gen_insert"]
    /\ UNCHANGED << WALLETS, LockFrame >>

\* wallets.insert (tools.rs:186) begins: the entry is half written
GenInsertBegin(t) ==
    /\ task[t].pc = "gen_insert"
    /\ WALLETS' = MapInsert(WALLETS, task[t].address,
                            SubSeq(HexEncode(task[t].bytes), 1, KeyHexLen \div 2))
    /\ task' = [task EXCEPT ![t].pc = "gen_insert_end"]
    /\ UNCHANGED << lock, LockFrame >>

\* wallets.insert (tools.rs:186) ends: the entry is whole
GenInsertEnd(t) ==
    /\ task[t].pc = "gen_insert_end"
    /\ WALLETS' = MapInsert(WALLETS, task[t].address, HexEncode(task[t].bytes))
    /\ task' = [task EXCEPT ![t].pc = "gen_unlock"]
    /\ UNCHANGED << lock, LockFrame >>

\* eth_generate_wallet returns and the guard is dropped (tools.rs:188-189)
GenReturn(t) ==
    /\ task[t].pc = "gen_unlock"
    /\ lock' = 0
    /\ task' = [task EXCEPT ![t].pc = "idle"]
    /\ UNCHANGED << WALLETS, LockFrame >>

\* eth_send_eth without a key override, up to WALLETS.lock() (tools.rs:264-294)
SendStart(t, from_address) ==
    /\ task[t].pc = "idle"
    /\ task' = [task EXCEPT ![t] =
                  [pc |-> "send_lock", bytes |-> << >>,
                   address |-> FormatAddress(AddressFromStr(from_address).addr),
                   seen |-> None]]
    /\ UNCHANGED << WALLETS, lock, LockFrame >>

\* an eth_send_eth that goes on to the lookup without taking the mutex
SendSkipsLock(t) ==
    /\ task[t].pc = "send_lock"
    /\ task' = [task EXCEPT ![t].pc = "send_get"]
    /\ UNCHANGED << WALLETS, lock, LockFrame >>

\* let wallets = WALLETS.lock().unwrap() (tools.rs:294)
SendLock(t) ==
    /\ task[t].pc = "send_lock"
    /\ lock = 0
    /\ lock' = t
    /\ task' = [task EXCEPT ![t].pc = "send_get"]
    /\ UNCHANGED << WALLETS, LockFrame >>

\* wallets.get(..) and key.clone() (tools.rs:295-296)
SendGet(t) ==
    /\ task[t].pc = "send_get"
    /\ task' = [task EXCEPT ![t].pc = "send_unlock",
                            ![t].seen = IF task[t].address \in DOMAIN WALLETS
                                        THEN Some(WALLETS[task[t].address])
                                        ELSE None]
    /\ UNCHANGED << WALLETS, lock, LockFrame >>

\* an eth_send_eth that keeps the guard while it goes on to the network
SendKeepsLock(t) ==
    /\ task[t].pc = "send_unlock"
    /\ task' = [task EXCEPT ![t].pc = IF task[t].seen.some THEN "send_rpc" ELSE "idle"]
    /\ UNCHANGED << WALLETS, lock, LockFrame >>

\* the guard is dropped at the end of the block, before get_provider().await
\* and the RPC steps, or by the return of the 'No private key found' string
\* (tools.rs:297-302)
SendUnlock(t) ==
    /\ task[t].pc = "send_unlock"
    /\ lock' = 0
    /\ task' = [task EXCEPT ![t].pc = IF task[t].seen.some THEN "send_rpc" ELSE "idle"]
    /\ UNCHANGED << WALLETS, LockFrame >>

\* the awaits of eth_send_eth after the lookup, get_provider, the RPC steps
\* and the wait for the confirmation, are over and it returns
\* (tools.rs:309-415)
SendReturn(t) ==
    /\ task[t].pc = "send_rpc"
    /\ task' = [task EXCEPT ![t].pc = "idle"]
    /\ UNCHANGED << WALLETS, lock, LockFrame >>

InitLock ==
    /\ Init
    /\ env.ANTHROPIC_API_KEY /\ env.ETH_RPC_URL.valid /\ env.SEPOLIA_RPC_URL.set

NextLock ==
    \/ \E t \in Tasks, bytes \in RandomKeys : GenStart(t, bytes)
    \/ \E t \in Tasks : GenLock(t)
    \/ \E t \in Tasks : GenInsertBegin(t)
    \/ \E t \in Tasks : GenInsertEnd(t)
    \/ \E t \in Tasks : GenReturn(t)
    \/ \E t \in Tasks, from_address \in {ADDR_A, ADDR_A_UPPER, ADDR_B} : SendStart(t, from_address)
    \/ \E t \in Tasks : SendLock(t)
    \/ \E t \in Tasks : SendGet(t)
    \/ \E t \in Tasks : SendUnlock(t)
    \/ \E t \in Tasks : SendReturn(t)

SpecLock == InitLock /\ [][NextLock]_vars

\* tokio::time::timeout(60 s, ..) ends the wait for the confirmation, with
\* what the poll gave or with Elapsed (tools.rs:357)
SpecLive == Spec /\ WF_vars(ConfirmationsEnd)

----------------------------------------------------------------------------
(* Properties *)

\* the tool invocations a reply holds: its tool_use blocks and its legacy list
InvocationsOf(r) ==
    {[name |-> r.content[i].name, id |-> r.content[i].id, parameters |-> r.content[i].input] :
        i \in {j \in 1..Len(r.content) : r.content[j].type = "tool_use"}}
      \cup {[name |-> r.tool_calls[i].name, id |-> r.tool_calls[i].id,
             parameters |-> r.tool_calls[i].parameters] : i \in 1..Len(r.tool_calls)}

\* C1: when the loop calls itself after a tool round-trip, the history it
\* passes is the history of the request just answered plus exactly two
\* messages: an assistant message holding only the tool_use block of an
\* invocation of that reply, then a user message holding only the tool_result
\* block with the executed tool's result under the same id; and one tool has
\* been executed per round-trip.
C1_RoundTripAppendsTwo ==
    /\ (caller = "loop" /\ pc \in {"tool", "rpc"}) => toolRuns \in {rounds, rounds + 1}
    /\ (caller = "loop" /\ pc = "tool_done") => toolRuns = rounds + 1
    /\ (pc = "enter" /\ rounds >= 1) =>
         /\ toolRuns = rounds
         /\ Len(messages) = Len(sent) + 2
         /\ SubSeq(messages, 1, Len(sent)) = sent
         /\ messages[Len(sent) + 1].role = "assistant"
         /\ Len(messages[Len(sent) + 1].content) = 1
         /\ messages[Len(sent) + 1].content[1].type = "tool_use"
         /\ \E t \in InvocationsOf(reply) :
              /\ t = tool
              /\ messages[Len(sent) + 1].content[1] = ToolUseBlock(t.id, t.name, t.parameters)
         /\ messages[Len(sent) + 2].role = "user"
         /\ messages[Len(sent) + 2].content = << ToolResultBlock(tool.id, tool_result) >>

\* two round-trips of one turn are done and the loop is entered a third time
C1_Witness == pc = "enter" /\ rounds = 2 /\ Len(messages) = 5

\* C2 (as claimed): an explicit maximum recursion depth bounds the tool
\* round-trips of a turn, so that past it no model request is issued.  Any
\* maximum below the horizon MaxRounds the model follows would keep the
\* requests of a turn at MaxRounds or fewer.
C2_ToolLoopBounded == requests <= MaxRounds

\* C3 (as claimed): execute_tool never aborts the process, whatever tool is
\* named, whatever the arguments, the RPC node's answers and the environment.
C3_ExecuteToolNeverAborts == pc # "aborted"

\* the send operation is the tool being executed (SendRuns: it has put an RPC
\* call out, returned or aborted, and its caller has not resumed), and what
\* its arguments hand to eth_send_eth: the three captures of the raw command when
\* there is one (eth_send_eth is entered only if all three match), else the
\* structured fields
IsSend == tool.name = "eth_wallet" /\ Operation = W_send
SendRuns == pc \in {"rpc", "tool_done", "aborted"} /\ IsSend
RawCommand == GetStr(tool.parameters, "raw_command")
SendEntered ==
    RawCommand.some =>
        /\ CaptureAmount(RawCommand.s).some
        /\ CaptureFrom(RawCommand.s).some
        /\ CaptureTo(RawCommand.s).some
SendFromArg ==
    IF RawCommand.some THEN CaptureFrom(RawCommand.s).s
    ELSE UnwrapOr(GetStr(tool.parameters, "from_address"), << >>)
SendToArg ==
    IF RawCommand.some THEN CaptureTo(RawCommand.s).s
    ELSE UnwrapOr(GetStr(tool.parameters, "to_address"), << >>)
SendAmountArg ==
    IF RawCommand.some THEN CaptureAmount(RawCommand.s).s
    ELSE UnwrapOr(GetStr(tool.parameters, "amount"), << "0" >>)
SendKeyArg ==
    IF RawCommand.some THEN CapturePrivateKey(RawCommand.s)
    ELSE GetStr(tool.parameters, "private_key")
\* the send ended with this string, without an RPC call and with the
\* registry as it was when the tool was entered
EndedWithoutRpc(r) == tool_result = r /\ rpcLog = << >> /\ WALLETS = walletsBefore

\* C4: a send puts an RPC call out only if eth_send_eth was entered with a
\* source address and a destination address that Address::from_str accepts
\* and an amount that parses as f64; and with all three arguments present,
\* a source address that does not parse ends the send with the invalid-from
\* string, else a destination that does not parse with the invalid-to string,
\* else an amount that does not parse with the invalid-amount string, each
\* without any RPC call and with the wallet registry unchanged.
C4_ValidatedBeforeRpc ==
    SendRuns =>
        LET from_address == SendFromArg
            to_address == SendToArg
            amount == SendAmountArg
            present ==
                SendEntered /\ ~IsEmpty(from_address) /\ ~IsEmpty(to_address) /\ ~IsEmpty(amount)
            fromOk == AddressFromStr(from_address).ok
            toOk == AddressFromStr(to_address).ok
            amountOk == ParseF64Ok(amount)
        IN  /\ rpcLog # << >> => (SendEntered /\ fromOk /\ toOk /\ amountOk)
            /\ (present /\ ~fromOk) =>
                 EndedWithoutRpc(Fmt("Error: Invalid from address format: {}",
                                     << from_address >>, << >>))
            /\ (present /\ fromOk /\ ~toOk) =>
                 EndedWithoutRpc(Fmt("Error: Invalid to address format: {}",
                                     << to_address >>, << >>))
            /\ (present /\ fromOk /\ toOk /\ ~amountOk) =>
                 EndedWithoutRpc(Fmt("Error: Invalid amount: {}", << amount >>, << >>))

\* a send whose destination does not parse has returned, while the registry
\* holds a key for its source address
C4_Witness ==
    /\ IsSend /\ pc = "tool_done"
    /\ AddressFromStr(SendFromArg).ok /\ ~IsEmpty(SendToArg) /\ ~AddressFromStr(SendToArg).ok
    /\ FormatAddress(AddressFromStr(SendFromArg).addr) \in DOMAIN WALLETS

\* the formatted source address of a send whose arguments passed validation
SendSource == FormatAddress(AddressFromStr(SendFromArg).addr)
SendValidated ==
    SendRuns /\ SendEntered /\ ValidateSend(SendFromArg, SendToArg, SendAmountArg) = NoResult

\* C5: while an RPC call of a validated send is out, the key of the signing
\* wallet is the decoded override when one was supplied, and otherwise the
\* decoded registry entry stored under the formatted source address; without
\* an override and without an entry under that address the send ends with
\* the 'No private key found' string for that address and no RPC call, so
\* that an entry under another address is never used.
C5_KeyResolution ==
    SendRuns =>
        LET key == SendKeyArg
            source == SendSource
            validated ==
                SendEntered /\ ValidateSend(SendFromArg, SendToArg, SendAmountArg) = NoResult
        IN  /\ pc = "rpc" =>
                 \/ IF key.some THEN call.key = HexDecode(key.s).bytes
                    ELSE /\ source \in DOMAIN walletsBefore
                         /\ call.key = HexDecode(walletsBefore[source]).bytes
                 \/ ~validated
            /\ \/ key.some
               \/ /\ pc # "aborted"
                  /\ rpcLog = << >>
                  /\ tool_result =
                       Fmt("Error: No private key found for address {:?}. Please provide a private key.",
                           << source >>, << >>)
               \/ source \in DOMAIN walletsBefore
               \/ ~validated

\* a send without an override is at its submit step, signed with the entry
\* of its source address, while the registry holds another address's key too
C5_Witness ==
    /\ SendValidated /\ ~SendKeyArg.some
    /\ pc = "rpc" /\ step = "send_transaction"
    /\ Cardinality(DOMAIN WALLETS) = 2

\* the execution's log holds the submit call, and the tool has ended
SubmitReached == \E i \in 1..Len(rpcLog) : rpcLog[i].call = "send_transaction"

\* C6 (as claimed): a send that reached the submit step ends by returning
\* one of the strings of the four outcomes: confirmed, submitted without a
\* receipt, submitted with the confirmation timed out, or rejected with its
\* reason (by the submission or by the confirmation poll).
C6_FourOutcomes ==
    (SubmitReached /\ pc # "rpc") =>
        /\ pc # "aborted"
        /\ tool_result.fmt \in {ConfirmedTemplate, NoReceiptTemplate, TimeoutTemplate,
                                SubmittedFailedTemplate, "Error sending transaction: {}"}

\* C7 (as claimed): when the confirmation poll of a submitted transaction
\* times out, the send returns the timed-out string, which holds the gas
\* estimate and the transaction hash the node answered with.
C7_TimeoutIsResult ==
    (rpcLog # << >> /\ rpcLog[Len(rpcLog)].call = "confirmations"
       /\ rpcLog[Len(rpcLog)].reply = "timeout") =>
        /\ pc # "aborted"
        /\ tool_result.fmt = TimeoutTemplate
        /\ \E g \in GasEstimates, h \in TxHashes :
             /\ tool_result.n[2] = g
             /\ tool_result.n[3] = h

\* the error string that names an RPC step of the send
StepError(rpc) ==
    CASE rpc = "get_gas_price" -> "Error getting gas price: {}"
      [] rpc = "estimate_gas" -> "Error estimating gas: {}"
      [] rpc = "send_transaction" -> "Error sending transaction: {}"
      [] OTHER -> ""

\* C8: the confirmed string is returned only after the gas-price query, the
\* estimation and the submission succeeded and the poll returned a receipt;
\* and a send whose gas-price query, estimation or submission failed has
\* returned the error string that names that step.
C8_NoFabricatedSuccess ==
    /\ tool_result.fmt = ConfirmedTemplate =>
         rpcLog = << [call |-> "get_gas_price", reply |-> "ok"],
                     [call |-> "estimate_gas", reply |-> "ok"],
                     [call |-> "send_transaction", reply |-> "ok"],
                     [call |-> "confirmations", reply |-> "receipt"] >>
    /\ (IsSend /\ rpcLog # << >> /\ rpcLog[Len(rpcLog)].reply = "err") =>
         /\ pc # "aborted"
         /\ rpcLog[Len(rpcLog)].call \in {"get_gas_price", "estimate_gas", "send_transaction"}
         /\ tool_result = Fmt(StepError(rpcLog[Len(rpcLog)].call), << RpcError >>, << >>)

\* the submission of a send failed after the two calls before it succeeded
C8_Witness ==
    /\ IsSend /\ pc = "tool_done"
    /\ Len(rpcLog) = 3 /\ rpcLog[3] = [call |-> "send_transaction", reply |-> "err"]

\* C9 (as claimed): for a prompt of the direct send shape no model request is
\* issued, the send operation is executed once with the prompt as its raw
\* command, and the call returns the tool's string as its successful answer.
C9_DirectSendAnswers ==
    (IsDirectSend(prompt) /\ pc # "personality") =>
        /\ requests = 0
        /\ tool = [name |-> "eth_wallet", id |-> "", parameters |-> DirectSendArgs(prompt)]
        /\ toolRuns <= 1
        /\ pc \notin {"aborted", "failed"}
        /\ pc = "idle" => (toolRuns = 1 /\ result = Ok(tool_result))

\* the model request failed in transport, or its body is an error envelope
RequestFailed ==
    reply.transport \in {"send_failed", "body_failed"} \/ (reply.transport = "ok" /\ reply.isError)

\* C10: a model request that failed in transport, or whose body is an error
\* envelope (whether or not the body would also parse as a reply), ends the
\* turn with an error: no tool was executed for it, it was the last request
\* of the turn, and for an envelope the error holds the provider's error
\* type and message.
C10_ModelFailureEndsTurn ==
    RequestFailed =>
        /\ pc = "failed"
        /\ result.kind = "err"
        /\ toolRuns = rounds
        /\ requests = rounds + 1
        /\ reply.transport = "ok" =>
             result.value = Fmt("Anthropic API error: {}: {}",
                                << << reply.errType >>, << reply.errMessage >> >>, << >>)

\* after a round-trip, the body of the next request is an error envelope
\* that would also parse as a reply holding a tool_use block
C10_Witness ==
    /\ pc = "failed" /\ rounds >= 1
    /\ reply.isError /\ reply.parses /\ HasToolCall(reply)

\* the texts of a content's text blocks, concatenated from the first to the last
ConcatTexts(content) ==
    LET texts == SelectSeq(content, LAMBDA b : b.type = "text")
        upTo[i \in 0..Len(texts)] == IF i = 0 THEN << >> ELSE upTo[i - 1] \o texts[i].text
    IN  upTo[Len(texts)]

\* C11: when the loop has returned a successful answer for a model reply,
\* that reply holds no tool invocation and the answer is not empty: it is
\* the concatenation of the reply's text blocks in their order, or the
\* placeholder when that concatenation is empty or all whitespace.
C11_FinalAnswerNonEmpty ==
    (result.kind = "ok" /\ reply.transport = "ok") =>
        LET text == ConcatTexts(reply.content)
            blank == \A i \in 1..Len(text) : text[i] \in {" ", "\n", "\t"}
        IN  /\ ~HasToolCall(reply)
            /\ blank => result.value = Fmt("I'm processing your request...", << >>, << >>)
            /\ ~blank => (result.value = Fmt("{}", << text >>, << >>) /\ Len(text) > 0)
            /\ result.value # NoResult

\* after a round-trip the model answers with text blocks of whitespace only,
\* and the placeholder is the answer
C11_Witness ==
    /\ pc = "idle" /\ rounds >= 1
    /\ result = Ok(Fmt("I'm processing your request...", << >>, << >>))
    /\ reply.content # << >>

\* every tool_result block of the history h carries the id of a tool_use
\* block of the message just before its own
ResultsFollowInvocations(h) ==
    \A i \in 1..Len(h) : \A k \in 1..Len(h[i].content) :
        h[i].content[k].type = "tool_result" =>
            /\ i > 1
            /\ \E j \in 1..Len(h[i - 1].content) :
                 /\ h[i - 1].content[j].type = "tool_use"
                 /\ h[i - 1].content[j].id = h[i].content[k].id

IsPrefix(a, b) == Len(a) <= Len(b) /\ SubSeq(b, 1, Len(a)) = a

\* C12: in every history sent to the model each tool_result block carries
\* the id of a tool_use block of the message immediately before it, and the
\* history of a later request of the turn begins with the whole history of
\* the request before it, unchanged and in the same order.
C12_HistoryAppendOnly ==
    [][ /\ ResultsFollowInvocations(sent')
        /\ (requests >= 1 /\ requests' = requests + 1) => IsPrefix(sent, sent') ]_vars

\* the third request of a turn is out, its history ending with the result
\* of the second tool
C12_Witness ==
    /\ pc = "await" /\ requests = 3 /\ Len(sent) = 5
    /\ sent[3].content[1].type = "tool_result"
    /\ sent[5].content[1].type = "tool_result"

\* the loop's current tool is one that execute_tool does not know
UnknownToolRequested ==
    caller = "loop" /\ tool.name \notin {"get_weather", "get_time", "eth_wallet"}

\* the last two messages of the history h are the invocation of the current
\* tool and its result
EndsWithRoundTrip(h) ==
    /\ Len(h) >= 2
    /\ h[Len(h) - 1] = Message("assistant", << ToolUseBlock(tool.id, tool.name, tool.parameters) >>)
    /\ h[Len(h)] = Message("user", << ToolResultBlock(tool.id, tool_result) >>)

\* C13: a tool whose name is not registered never aborts the process or
\* ends the turn: execute_tool returns the 'Unknown tool' string for it,
\* the round-trip completes, the history the loop is entered with again
\* ends with the invocation and that string as its result, and the next
\* model request is sent with that history.
C13_UnknownToolCarriesOn ==
    UnknownToolRequested =>
        /\ pc # "aborted"
        /\ pc # "tool" => tool_result = Fmt("Unknown tool: {}", << << tool.name >> >>, << >>)
        /\ pc \notin {"tool", "tool_done"} => toolRuns = rounds
        /\ pc = "enter" => EndsWithRoundTrip(messages)
        /\ pc = "await" => (requests = rounds + 1 /\ EndsWithRoundTrip(sent))

\* the model was called again after the round-trip of an unknown tool
C13_Witness ==
    /\ UnknownToolRequested /\ pc = "await" /\ rounds >= 1
    /\ tool_result.fmt = "Unknown tool: {}"

\* the balance operation is the tool being executed, and the address it is
\* handed
BalanceRuns ==
    /\ pc \in {"rpc", "tool_done", "aborted"}
    /\ tool.name = "eth_wallet" /\ Operation = W_balance
BalanceAddressArg == UnwrapOr(GetStr(tool.parameters, "address"), << >>)

\* C14: a balance query for an address that is given but that
\* Address::from_str rejects has returned, in every environment, the string
\* "Error: Invalid Ethereum address format: <address>", and neither a
\* provider was built nor an RPC call put out.
C14_InvalidAddressNoCall ==
    (BalanceRuns /\ ~IsEmpty(BalanceAddressArg) /\ ~AddressFromStr(BalanceAddressArg).ok) =>
        /\ pc = "tool_done"
        /\ rpcLog = << >>
        /\ tool_result =
             Fmt("Error: Invalid Ethereum address format: {}", << BalanceAddressArg >>, << >>)

\* the balance of "0xZZZ" was asked for where no RPC URL is configured
C14_Witness ==
    /\ BalanceRuns /\ pc = "tool_done"
    /\ BalanceAddressArg = << "0", "x", "Z", "Z", "Z" >>
    /\ ~env.ETH_RPC_URL.set /\ ~env.SEPOLIA_RPC_URL.set

\* C15 (as claimed): a balance query for a valid address has ended with the
\* result labeled as mock exactly when the adapter failed, be it that no
\* provider could be built for the configured URL or that the get_balance
\* call returned an error.
C15_AdapterFailureGivesMock ==
    (BalanceRuns /\ pc # "rpc" /\ AddressFromStr(BalanceAddressArg).ok) =>
        LET failed ==
                \/ GetProvider(env) = "err"
                \/ (rpcLog # << >> /\ rpcLog[Len(rpcLog)].reply = "err")
        IN  failed <=> (tool_result.fmt = "Balance for address {:?}: {}.{} ETH (mock)")

\* the text "send <amount> ETH from <source> to <destination>"
SendCommand(amount, source, destination) ==
    << "s", "e", "n", "d", " " >> \o amount \o << " ", "E", "T", "H", " " >>
      \o << "f", "r", "o", "m", " " >> \o source \o << " ", "t", "o", " " >> \o destination

\* commands that lack fields, each with the error of the first field it
\* lacks in the order amount, source, destination
LackingCommands ==
    { << << "s", "e", "n", "d", " ", "E", "T", "H" >>,
         "Error: Could not parse ETH amount from command" >>,
      << << "s", "e", "n", "d", " ", "1", " ", "E", "T", "H" >>,
         "Error: Could not parse from address from command" >>,
      << P_NO_AMOUNT, "Error: Could not parse ETH amount from command" >>,
      << P_NO_FROM, "Error: Could not parse from address from command" >>,
      << P_NO_TO, "Error: Could not parse to address from command" >> }

\* C16: for a raw command "send <amount> ETH from <source> to <destination>"
\* the parser does what eth_send_eth does for exactly that source,
\* destination and amount without a key override, and the call that is out
\* holds that amount and those two addresses; a command that lacks fields
\* has returned the error of the first field it lacks, in the order amount,
\* source, destination, and nothing of eth_send_eth has run.
C16_ParserExtractsTriple ==
    (SendRuns /\ RawCommand.some) =>
        /\ \A amount \in {AMT_01, AMT_1}, source \in {ADDR_A, ADDR_B}, destination \in {ADDR_A, ADDR_B} :
             RawCommand.s = SendCommand(amount, source, destination) =>
                /\ parse_and_execute_eth_send_command(RawCommand.s, walletsBefore, env)
                     = eth_send_eth(source, destination, amount, None, walletsBefore, env)
                /\ pc = "rpc" =>
                     /\ call.amount = amount
                     /\ FormatAddress(call.from) = source
                     /\ FormatAddress(call.to) = destination
                /\ (pc = "tool_done" /\ rpcLog = << >>) =>
                     tool_result = eth_send_eth(source, destination, amount, None,
                                                walletsBefore, env).result
        /\ \A c \in LackingCommands :
             RawCommand.s = c[1] =>
                /\ pc = "tool_done"
                /\ rpcLog = << >>
                /\ tool_result = Fmt(c[2], << >>, << >>)

\* "send 1 ETH from <B> to <A>" was parsed and its gas-price query is out
C16_Witness ==
    /\ SendRuns /\ pc = "rpc" /\ step = "get_gas_price"
    /\ RawCommand.some /\ RawCommand.s = SendCommand(AMT_1, ADDR_B, ADDR_A)

\* every entry holds the hex of a key that makes a wallet, and the address
\* derived from that key, formatted as the registry formats addresses, is
\* the address the entry is stored under
RegistryRoundTrips(wallets) ==
    \A a \in DOMAIN wallets :
        LET decoded == HexDecode(wallets[a])
        IN  /\ decoded.ok
            /\ WalletFromBytesOk(decoded.bytes)
            /\ FormatAddress(WalletAddress(decoded.bytes)) = a

\* C17: every entry of the wallet registry holds the hex of a key that makes
\* a wallet, and re-deriving the address from that key gives the address the
\* entry is stored under: so it is of the registry the process starts with
\* and of every registry a step changes it to.
C17_RegistryRoundTrip ==
    /\ RegistryRoundTrips(WALLETS)
    /\ [][WALLETS' # WALLETS => RegistryRoundTrips(WALLETS')]_vars

\* a wallet was generated again for a key the registry already held, next
\* to the entry of another key
C17_Witness ==
    /\ pc = "tool_done" /\ tool.name = "eth_wallet" /\ Operation = W_generate
    /\ Cardinality(DOMAIN WALLETS) = 2
    /\ WALLETS = walletsBefore
    /\ tool_result.fmt # "Failed to generate wallet"

\* C18: with callers running at once, a task is between its lock() and the
\* drop of its guard whenever it inserts into or looks up in the registry,
\* and it is then the one holder of the mutex; and the key a send's lookup
\* returned is a whole key whose address is the address looked up, never
\* the half of an entry being written.
C18_RegistryUnderLock ==
    \A t \in Tasks :
        /\ task[t].pc \in {"gen_insert", "gen_insert_end", "gen_unlock", "send_get", "send_unlock"}
             => lock = t
        /\ task[t].seen.some =>
             /\ Len(task[t].seen.s) = KeyHexLen
             /\ HexDecode(task[t].seen.s).ok
             /\ FormatAddress(WalletAddress(HexDecode(task[t].seen.s).bytes)) = task[t].address

\* a send waits for the mutex while the entry of its source address is half
\* written by a generation that replaces it
C18_Witness ==
    \E t \in Tasks, u \in Tasks :
        /\ task[t].pc = "gen_insert_end"
        /\ task[u].pc = "send_lock"
        /\ task[u].address = task[t].address
        /\ Len(WALLETS[task[t].address]) < KeyHexLen
        /\ task[u].seen = None

\* the RPC steps of eth_send_eth in the order of the code (tools.rs:329-357)
SendSteps == << "get_gas_price", "estimate_gas", "send_transaction", "confirmations" >>

\* C19: the RPC calls of one eth_send_eth are the first steps of gas-price
\* query, gas estimation, submit, confirmation poll, in that order and each
\* at most once; every call before the last one made has succeeded, so
\* nothing follows a failed step, a failed poll or a timeout, and the call
\* is over once a step has not succeeded.
C19_StepsInOrderOnce ==
    /\ (rpcLog # << >> /\ IsSend) =>
          LET n == Len(rpcLog)
          IN  /\ n <= Len(SendSteps)
              /\ \A i \in 1..n :
                   /\ rpcLog[i].call = SendSteps[i]
                   /\ i < n => rpcLog[i].reply = "ok"
              /\ rpcLog[n].reply \notin {"ok", "pending"} => pc # "rpc"
              /\ pc = "rpc" => rpcLog[n].reply = "pending"
    /\ (pc = "rpc" /\ IsSend) => rpcLog # << >>

\* a send made all four calls and its poll timed out
C19_Witness ==
    /\ IsSend /\ pc \in {"tool_done", "aborted"}
    /\ Len(rpcLog) = 4
    /\ rpcLog[3] = [call |-> "send_transaction", reply |-> "ok"]
    /\ rpcLog[4] = [call |-> "confirmations", reply |-> "timeout"]

\* the submit RPC of this send has succeeded
SubmitSucceeded ==
    \E i \in 1..Len(rpcLog) : rpcLog[i] = [call |-> "send_transaction", reply |-> "ok"]

\* C20: once the submit RPC of a send has succeeded and the poll is over,
\* the call has returned a result to its caller, and the result carries the
\* hash of the submitted transaction, whatever the poll ended with and
\* whichever RPC URL variables are set.
C20_HashAlwaysReturned ==
    (IsSend /\ SubmitSucceeded /\ pc \in {"tool_done", "aborted"}) =>
        /\ pc = "tool_done"
        /\ tool_result.fmt \in {ConfirmedTemplate, NoReceiptTemplate, TimeoutTemplate,
                                SubmittedFailedTemplate}
        /\ \E h \in TxHashes : tool_result.n[Len(tool_result.n)] = h

\* C21: a send whose submit RPC has succeeded and which waits for the
\* confirmation eventually returns a result to its caller, the wait being
\* ended by the timeout when no confirmation arrives.
C21_SubmittedSendReturns ==
    (IsSend /\ pc = "rpc" /\ step = "confirmations") ~> (IsSend /\ pc = "tool_done")

\* the position of the first tool_use block of content, scanning from the
\* front; 0 when it holds none
FirstInvocationAt(content) ==
    LET n == Len(content)
        scan[i \in 1..(n + 1)] ==
            IF i > n THEN 0
            ELSE IF content[i].type = "tool_use" THEN i
            ELSE scan[i + 1]
    IN  scan[1]

\* C22: the tool the loop executes for a reply is the reply's first
\* tool_use block in content order when it has one, and the first element
\* of the legacy tool_calls list only when the content has no tool_use
\* block; a reply whose answer the loop returned as final has neither.
C22_FirstInvocationWins ==
    /\ (pc = "tool" /\ caller = "loop") =>
         LET at == FirstInvocationAt(reply.content)
         IN  IF at > 0
             THEN /\ tool.id = reply.content[at].id
                  /\ tool.name = reply.content[at].name
                  /\ tool.parameters = reply.content[at].input
             ELSE /\ reply.tool_calls # << >>
                  /\ tool.id = reply.tool_calls[1].id
                  /\ tool.name = reply.tool_calls[1].name
                  /\ tool.parameters = reply.tool_calls[1].parameters
    /\ (result.kind = "ok" /\ reply.transport = "ok") =>
         /\ FirstInvocationAt(reply.content) = 0
         /\ reply.tool_calls = << >>

\* the loop executes the tool_use block of a reply that also fills the
\* legacy list with another tool
C22_Witness ==
    /\ pc = "tool" /\ caller = "loop"
    /\ FirstInvocationAt(reply.content) > 0
    /\ reply.tool_calls # << >>
    /\ reply.tool_calls[1].name # tool.name
    /\ tool.name = reply.content[1].name

\* C23: the request of round k of a turn carries 1 + 2k messages: first a
\* user message whose one block is the text of the prompt, then k pairs of
\* an assistant message with a tool_use block and a user message with a
\* tool_result block; so the roles alternate from user on, and the prompt
\* is in the history once.
C23_PromptOnce ==
    pc = "await" =>
        /\ Len(sent) = 1 + 2 * rounds
        /\ sent[1].role = "user"
        /\ Len(sent[1].content) = 1
        /\ sent[1].content[1].type = "text"
        /\ \E p \in Prompts : ~IsEmpty(p) /\ sent[1].content[1].text = p
        /\ rounds = 0 => sent[1].content[1].text = prompt
        /\ \A i \in 2..Len(sent) :
             /\ sent[i].role = (IF i % 2 = 0 THEN "assistant" ELSE "user")
             /\ Len(sent[i].content) = 1
             /\ sent[i].content[1].type = (IF i % 2 = 0 THEN "tool_use" ELSE "tool_result")

\* the request after the second round-trip is out, with the prompt at the
\* head of its five messages
C23_Witness ==
    /\ pc = "await" /\ rounds = 2
    /\ Len(sent) = 5
    /\ sent[1].content[1].type = "text"
    /\ sent[1].content[1].text = P_PLEASE

\* C24: a send with structured arguments from which the from_address, the
\* to_address or the amount key is missing ends with the 'From address, to
\* address, and amount are required' string and puts no RPC call out.
C24_MissingKeyIsRequired ==
    (SendRuns /\ ~RawCommand.some
       /\ \E k \in {"from_address", "to_address", "amount"} : ~GetStr(tool.parameters, k).some) =>
        /\ pc = "tool_done"
        /\ rpcLog = << >>
        /\ tool_result =
             Fmt("Error: From address, to address, and amount are required", << >>, << >>)

\* the step is a call of eth_generate_wallet
GenerateStep == pc = "tool" /\ tool.name = "eth_wallet" /\ Operation = W_generate

\* C25: only a step of eth_generate_wallet changes the wallet registry; a
\* generation that returns a wallet leaves the registry with the entries it
\* had and the returned key under the returned address, and one that fails
\* leaves it as it was; no step removes an entry, and none changes the key
\* under an address other than the generated one.
C25_OnlyGenerationWrites ==
    [][ /\ WALLETS' # WALLETS => GenerateStep
        /\ GenerateStep =>
             IF tool_result'.fmt = "Generated new Ethereum wallet:\nAddress: {:?}\nPrivate Key: {}"
             THEN /\ DOMAIN WALLETS' = DOMAIN WALLETS \cup {tool_result'.a[1]}
                  /\ WALLETS'[tool_result'.a[1]] = tool_result'.a[2]
                  /\ \A b \in DOMAIN WALLETS \ {tool_result'.a[1]} : WALLETS'[b] = WALLETS[b]
             ELSE WALLETS' = WALLETS ]_vars

\* a generation has added a second address to the registry, the first
\* entry being as it was
C25_Witness ==
    /\ pc = "tool_done" /\ tool.name = "eth_wallet" /\ Operation = W_generate
    /\ walletsBefore # EmptyRegistry
    /\ DOMAIN walletsBefore # DOMAIN WALLETS
    /\ \A b \in DOMAIN walletsBefore : b \in DOMAIN WALLETS /\ WALLETS[b] = walletsBefore[b]

\* C26: while the submit RPC of a send or its confirmation poll is out, the
\* address of the wallet made from the signing key is the source address of
\* the send, whether the key is the registry's or an override.
C26_SignerIsSource ==
    (IsSend /\ pc = "rpc" /\ SubmitReached) =>
        FormatAddress(WalletAddress(call.key)) = FormatAddress(call.from)

\* the positions between a task's lock() and the drop of its guard
HoldsGuard == {"gen_insert", "gen_insert_end", "gen_unlock", "send_get", "send_unlock"}

\* C27: no task holds the registry mutex while its network calls are out:
\* the holder of the mutex is at an insert or a lookup, a send has dropped
\* its guard before its first await, and so a task that waits for the mutex
\* while sends wait on the network finds it free unless another task is at
\* an insert or a lookup.
C27_NoLockAcrossNetwork ==
    /\ \A t \in Tasks :
         /\ lock = t => task[t].pc \in HoldsGuard
         /\ task[t].pc = "send_rpc" => lock # t
    /\ (\A t \in Tasks : task[t].pc \notin HoldsGuard) => lock = 0

\* a generation is at its insert, holding the mutex, while a send that found
\* its key waits on the network
C27_Witness ==
    \E t \in Tasks, u \in Tasks :
        /\ task[t].pc = "send_rpc"
        /\ task[t].seen.some
        /\ task[u].pc = "gen_insert_end"
        /\ lock = u

\* the argument keys execute_tool reads in the arm of a tool (tools.rs:55-102)
KeysReadFor(name) ==
    CASE name = "get_weather" -> {"city"}
      [] name = "get_time" -> {"timezone"}
      [] name = "eth_wallet" ->
           {"operation", "address", "from_address", "to_address", "amount", "private_key",
            "raw_command"}
      [] OTHER -> {}

\* the templates of the results of get_weather and of get_time
WeatherTemplates ==
    {"30C, sunny", "15C, cloudy with occasional rain",
     "Weather data for {} is not available. This is a mock implementation."}
TimeTemplates ==
    {"Current time (local, timezone {} not implemented): {}", "Current local time: {}"}

\* C28: every model request declares the tools of get_available_tools in
\* the order of that list, get_weather, get_time, eth_wallet, no name
\* twice, each with a schema that is not the empty default and names only
\* arguments its arm of execute_tool reads; and a call of a listed name has
\* been answered by that tool's own implementation, never with the
\* 'Unknown tool' string.
C28_ListAndDispatchAgree ==
    /\ pc = "await" =>
         /\ Len(sentTools) = Len(get_available_tools)
         /\ [i \in 1..Len(sentTools) |-> sentTools[i].name]
              = << "get_weather", "get_time", "eth_wallet" >>
         /\ \A i \in 1..Len(sentTools) :
              /\ sentTools[i].name = get_available_tools[i].name
              /\ \A j \in 1..Len(sentTools) : i # j => sentTools[i].name # sentTools[j].name
              /\ sentTools[i].input_schema.properties # {}
              /\ sentTools[i].input_schema.properties \subseteq KeysReadFor(sentTools[i].name)
              /\ sentTools[i].input_schema.required \subseteq sentTools[i].input_schema.properties
    /\ (pc = "tool_done" /\ \E i \in 1..Len(get_available_tools) : get_available_tools[i].name = tool.name) =>
         /\ tool_result.fmt # "Unknown tool: {}"
         /\ tool.name = "get_weather" => tool_result.fmt \in WeatherTemplates
         /\ tool.name = "get_time" => tool_result.fmt \in TimeTemplates
         /\ tool.name = "eth_wallet" =>
              tool_result.fmt \notin WeatherTemplates \cup TimeTemplates \cup {""}

\* get_time, declared in the request of the turn, was called by the model
\* and answered with the local time
C28_Witness ==
    /\ pc = "tool_done" /\ caller = "loop"
    /\ Len(sentTools) = 3
    /\ sentTools[2].name = tool.name
    /\ tool.name = "get_time"
    /\ tool_result.fmt = "Current local time: {}"

====
